---------------------------- MODULE Spec2Model ----------------------------
(***************************************************************************)
(* OVERCLOCK (src/game/main.py): the simulation core of the game as a      *)
(* state machine.                                                          *)
(*                                                                         *)
(* Units.  Positions are whole pixels.  Times are whole centiseconds       *)
(* (1 cs = 0.01 s), so HERO_IFRAMES = 1.0 s is 100 and a frame's dt is a   *)
(* number of cs.  A displacement speed * dt is speed * dt / 100 pixels,    *)
(* rounded down.  A glitch's alpha is kept in units of 1/200 (it decays by *)
(* 0.5 per second, i.e. by 1 unit per cs).                                 *)
(*                                                                         *)
(* Randomness.  The random module is a generator seeded once, when the     *)
(* program starts.  The seed is a short tape of levels 0..RandMax chosen   *)
(* nondeterministically; every call reads one cell of the tape (rotated by *)
(* the frame number), and level v stands for the fraction v / RandMax of   *)
(* the call's range.                                                       *)
(*                                                                         *)
(* Game.update is modelled statement block by statement block: pc is the   *)
(* position inside the frame, and while pc # "frame" exactly one step is   *)
(* enabled, the next block of update.  Cosmetic state (particles, shake,   *)
(* trails, colours) is left out; of the audio sink the model keeps what    *)
(* SFX.__init__ left behind and whether a play call returns or raises.     *)
(***************************************************************************)
EXTENDS Integers, Sequences, FiniteSets, TLC

\* ---------------------------------------------------------------- bounds
MaxFrames == 2      \* frames (run-loop iterations) explored per behaviour
RandMax == 2        \* a random draw takes the levels 0..RandMax
TapeLen == 2        \* length of a frame's random tape

\* ------------------------------------------------------ program constants
W == 960
H == 540
GRID == 48
JUNC_TOL == 6
HERO_R == 8
HERO_SPEED == 260
HERO_IFRAMES == 100          \* 1.0 s
HERO_SHOT_CD == 22           \* 0.22 s
HERO_HP == 5
SURGE_R == 5
SURGE_LEN == 190             \* 1.9 s
SURGE_SPEED_PLAYER == 560
SURGE_SPEED_ENEMY == 460
SURGE_SPEED_NATURAL == 520
OC_FILL_PER_CANCEL == 8
OC_FILL_PER_KILL == 12
OC_MAX == 200
OC_SURGE_R == 10
OC_SURGE_SPEED == 700
OC_SURGE_TTL == 160          \* 1.6 s
OC_SURGE_DMG == 2
VIRUS_BASE_R == 22
BUG_R == 14
WORM_R == 18
VIRUS_SPEED == 90
BUG_SPEED == 150
WORM_SPEED == 110
VIRUS_SHOOT_CD == <<130, 190>>
BUG_SHOOT_CD == <<85, 115>>
WORM_SHOOT_CD == <<180, 240>>
SECTOR_START_ENEMIES == <<2, 2, 1>>
NAT_SURGE_EVERY == <<240, 380>>
MAX_ENEMIES_ON_FIELD == 18
REP_CD == 75                 \* 0.75 s, the mitosis cooldown
GLITCH_ALPHA == 200          \* alpha 1.0 in units of 1/200
GLITCH_R == 7
EMIT_SPACING == 7            \* 0.07 s between a train's packets

\* ---------------------------------------------------------------- helpers
Vec(a, b) == [x |-> a, y |-> b]
CENTER == Vec(W \div 2, H \div 2)
DirsAll == <<Vec(1, 0), Vec(-1, 0), Vec(0, 1), Vec(0, -1)>>
Abs(v) == IF v < 0 THEN -v ELSE v
Min2(a, b) == IF a < b THEN a ELSE b
Max2(a, b) == IF a > b THEN a ELSE b

clamp(v, a, b) == IF v < a THEN a ELSE IF v > b THEN b ELSE v

\* round(v / GRID) * GRID; Python rounds an exact half to the even integer
RoundGrid(v) ==
  LET q == v \div GRID
      r == v % GRID
      k == IF 2 * r < GRID THEN q
           ELSE IF 2 * r > GRID THEN q + 1
           ELSE IF q % 2 = 0 THEN q ELSE q + 1
  IN k * GRID

near_grid(v) == Abs(v - RoundGrid(v)) <= JUNC_TOL

at_intersection(p) == near_grid(p.x) /\ near_grid(p.y)

snap_axis(p, dirv) ==
  LET xg == RoundGrid(p.x)
      yg == RoundGrid(p.y)
  IN [x |-> IF Abs(dirv.y) > 0 THEN xg ELSE p.x,
      y |-> IF Abs(dirv.x) > 0 THEN yg ELSE p.y]

\* a variant of cardinal_from that resolves ties to the vertical
CardinalTiesVertical(v) ==
  IF v.x = 0 /\ v.y = 0 THEN Vec(1, 0)
  ELSE IF Abs(v.x) > Abs(v.y) THEN Vec(IF v.x >= 0 THEN 1 ELSE -1, 0)
  ELSE Vec(0, IF v.y >= 0 THEN 1 ELSE -1)

cardinal_from(v) ==
  IF v.x = 0 /\ v.y = 0 THEN Vec(1, 0)
  ELSE IF Abs(v.x) >= Abs(v.y) THEN Vec(IF v.x >= 0 THEN 1 ELSE -1, 0)
  ELSE Vec(0, IF v.y >= 0 THEN 1 ELSE -1)

\* a.distance_to(b) <= d, for d >= 0
Within(a, b, d) ==
  (a.x - b.x) * (a.x - b.x) + (a.y - b.y) * (a.y - b.y) <= d * d

\* speed (px/s) * dt (cs), in whole pixels
Travel(speed, dt) == (speed * dt) \div 100

\* ------------------------------------------------------------- randomness
Tapes == [1..TapeLen -> 0..RandMax]
\* the level read by draw number n of a frame
Draw(tape, n) == tape[(n % TapeLen) + 1]
\* random.uniform(a, b) and rand_between((a, b))
uniform(a, b, v) == a + ((b - a) * v) \div RandMax
rand_between(a_b, v) == uniform(a_b[1], a_b[2], v)
\* random.randint(a, b)
randint(a, b, v) == Min2(b, a + ((b - a + 1) * v) \div RandMax)
\* random.choice(seq)
choice(seq, v) == seq[Min2(Len(seq), 1 + (Len(seq) * v) \div RandMax)]
\* random.random() < num / den
random_below(num, den, v) == v * den < num * RandMax

\* ------------------------------------------------------------------ surges
Surge(pos, dirv, speed, owner, r, ttl, dmg, pierce) ==
  [pos |-> pos, dir |-> cardinal_from(dirv), speed |-> speed, ttl |-> ttl,
   owner |-> owner, r |-> r, dmg |-> dmg, pierce |-> pierce]

\* a variant of Surge.update without the snap to the wire
SurgeMovedUnsnapped(s, dt) ==
  [s EXCEPT !.pos = Vec(s.pos.x + s.dir.x * Travel(s.speed, dt),
                        s.pos.y + s.dir.y * Travel(s.speed, dt)),
            !.ttl = s.ttl - dt]

\* a variant of Surge.update that leaves the time-to-live alone
SurgeMovedTimeless(s, dt) ==
  LET p == Vec(s.pos.x + s.dir.x * Travel(s.speed, dt),
               s.pos.y + s.dir.y * Travel(s.speed, dt))
  IN [s EXCEPT !.pos = snap_axis(p, s.dir)]

\* Surge.update: the surge after the move ...
SurgeMoved(s, dt) ==
  LET p == Vec(s.pos.x + s.dir.x * Travel(s.speed, dt),
               s.pos.y + s.dir.y * Travel(s.speed, dt))
  IN [s EXCEPT !.pos = snap_axis(p, s.dir), !.ttl = s.ttl - dt]

\* ... and its return value, read on the moved surge
SurgeAlive(s) ==
  /\ s.ttl > 0
  /\ -20 < s.pos.x /\ s.pos.x < W + 20
  /\ -20 < s.pos.y /\ s.pos.y < H + 20

is_friend(o) == o \in {"player", "oc"}
is_foe(o) == o \in {"enemy", "natural"}

\* -------------------------------------------------------------------- hero
HeroNew(pos) ==
  [pos |-> pos, hp |-> HERO_HP, ifr |-> 0, cd |-> 0, face |-> Vec(1, 0),
   oc_meter |-> 0]

alive(h) == h.hp > 0

\* (variant) a hurt that ignores the invulnerability timer
HurtUnguarded(h) == [h EXCEPT !.hp = h.hp - 1, !.ifr = HERO_IFRAMES]

\* (variant) a hurt that does not start the invulnerability timer
HurtNoIframes(h) == IF h.ifr > 0 THEN h ELSE [h EXCEPT !.hp = h.hp - 1]

\* Hero.hurt: the hero afterwards; it returned True iff hp changed
hurt(h) ==
  IF h.ifr > 0 THEN h
  ELSE [h EXCEPT !.hp = h.hp - 1, !.ifr = HERO_IFRAMES]

\* (variant) a charge that is not clamped
AddOcUnclamped(h, v) == [h EXCEPT !.oc_meter = h.oc_meter + v]

add_oc(h, v) == [h EXCEPT !.oc_meter = clamp(h.oc_meter + v, 0, OC_MAX)]

\* (variant) a meter that counts as full one cancel early
ReadyOneCancelEarly(h) == h.oc_meter >= OC_MAX - OC_FILL_PER_CANCEL

ready_overclock(h) == h.oc_meter >= OC_MAX

reset_overclock(h) == [h EXCEPT !.oc_meter = 0]

\* the length of one axis component of a normalized move, times speed * dt
HeroStep(mx, my, dt) ==
  IF mx # 0 /\ my # 0 THEN (Travel(HERO_SPEED, dt) * 7071) \div 10000
  ELSE Travel(HERO_SPEED, dt)

\* Hero.update; k.mx, k.my are the held movement keys' sum per axis
HeroUpdate(h, dt, k) ==
  LET moving == k.mx # 0 \/ k.my # 0
      px == IF moving THEN h.pos.x + k.mx * HeroStep(k.mx, k.my, dt) ELSE h.pos.x
      py == IF moving THEN h.pos.y + k.my * HeroStep(k.mx, k.my, dt) ELSE h.pos.y
  IN [h EXCEPT !.pos = Vec(clamp(px, 12, W - 12), clamp(py, 12, H - 12)),
               !.face = IF moving THEN cardinal_from(Vec(k.mx, k.my)) ELSE h.face,
               !.ifr = IF h.ifr > 0 THEN Max2(0, h.ifr - dt) ELSE h.ifr,
               !.cd = IF h.cd > 0 THEN Max2(0, h.cd - dt) ELSE h.cd]

\* A hero that could fire in every pass, whatever its cooldown.
CanShootAlways(h) == TRUE

can_shoot(h) == h.cd <= 0

\* Hero.shoot: the surge it returns ...
ShootSurge(h, aim_dir) ==
  Surge(h.pos,
        cardinal_from(IF aim_dir.x # 0 \/ aim_dir.y # 0 THEN aim_dir ELSE h.face),
        SURGE_SPEED_PLAYER, "player", SURGE_R, SURGE_LEN, 1, FALSE)

\* ... and the hero afterwards
ShootHero(h) == [h EXCEPT !.cd = HERO_SHOT_CD]

\* ----------------------------------------------------------------- enemies
VirusR(tier) ==
  IF tier = 2 THEN VIRUS_BASE_R
  ELSE IF tier = 1 THEN VIRUS_BASE_R - 6 ELSE VIRUS_BASE_R - 10

VirusHp(tier) == IF tier = 2 THEN 3 ELSE IF tier = 1 THEN 2 ELSE 1

\* Enemy.__init__ and the subclass constructors.  n is the number of the
\* constructor's first draw: dir reads draw n, the subclass' shoot_t draw
\* n + 1 and a Worm's drop_t draw n + 2.  tier is 0 for Bugs and Worms.
Virus(pos, tier, tape, n) ==
  [kind |-> "Virus", tier |-> tier, pos |-> pos, r |-> VirusR(tier),
   hp |-> VirusHp(tier), dir |-> choice(DirsAll, Draw(tape, n)),
   shoot_t |-> rand_between(VIRUS_SHOOT_CD, Draw(tape, n + 1)),
   drop_t |-> 0, rep_cd |-> 0]

Bug(pos, tape, n) ==
  [kind |-> "Bug", tier |-> 0, pos |-> pos, r |-> BUG_R, hp |-> 2,
   dir |-> choice(DirsAll, Draw(tape, n)),
   shoot_t |-> rand_between(BUG_SHOOT_CD, Draw(tape, n + 1)),
   drop_t |-> 0, rep_cd |-> 0]

Worm(pos, tape, n) ==
  [kind |-> "Worm", tier |-> 0, pos |-> pos, r |-> WORM_R, hp |-> 4,
   dir |-> choice(DirsAll, Draw(tape, n)),
   shoot_t |-> rand_between(WORM_SHOOT_CD, Draw(tape, n + 1)),
   drop_t |-> uniform(25, 55, Draw(tape, n + 2)), rep_cd |-> 0]

\* turn_bias, in hundredths
TurnBias(e) ==
  IF e.kind = "Virus" THEN 18 ELSE IF e.kind = "Bug" THEN 45 ELSE 22

EnemySpeed(e) ==
  IF e.kind = "Virus" THEN VIRUS_SPEED
  ELSE IF e.kind = "Bug" THEN BUG_SPEED ELSE WORM_SPEED

\* snap_axis(self.pos, self.dir)
Resnap(e) == [e EXCEPT !.pos = snap_axis(e.pos, e.dir)]

\* Enemy.common_move, statement by statement: lock to the wire and move,
MoveAlong(e, d) ==
  [e EXCEPT !.pos = Vec(e.pos.x + e.dir.x * d, e.pos.y + e.dir.y * d)]

\* bounce at the world bounds in x, then in y,
BounceX(e) ==
  IF e.pos.x < 12 \/ e.pos.x > W - 12
  THEN Resnap([e EXCEPT !.pos = Vec(clamp(e.pos.x, 12, W - 12), e.pos.y),
                        !.dir = Vec(-e.dir.x, e.dir.y)])
  ELSE e

BounceY(e) ==
  IF e.pos.y < 12 \/ e.pos.y > H - 12
  THEN Resnap([e EXCEPT !.pos = Vec(e.pos.x, clamp(e.pos.y, 12, H - 12)),
                        !.dir = Vec(e.dir.x, -e.dir.y)])
  ELSE e

\* a variant of the turn that does not look where the enemy is
RandomTurnAnywhere(e, dt, tape, n) ==
  IF random_below(TurnBias(e) * dt * 60, 10000, Draw(tape, n))
  THEN Resnap([e EXCEPT !.dir =
                 IF Abs(e.dir.x) > 0
                 THEN choice(<<Vec(0, 1), Vec(0, -1)>>, Draw(tape, n + 1))
                 ELSE choice(<<Vec(1, 0), Vec(-1, 0)>>, Draw(tape, n + 1))])
  ELSE e

\* turn at an intersection (the test reads draw n, the new direction n + 1),
RandomTurn(e, dt, tape, n) ==
  IF /\ at_intersection(e.pos)
     /\ random_below(TurnBias(e) * dt * 60, 10000, Draw(tape, n))
  THEN Resnap([e EXCEPT !.dir =
                 IF Abs(e.dir.x) > 0
                 THEN choice(<<Vec(0, 1), Vec(0, -1)>>, Draw(tape, n + 1))
                 ELSE choice(<<Vec(1, 0), Vec(-1, 0)>>, Draw(tape, n + 1))])
  ELSE e

\* and run the mitosis cooldown down
RepCooldown(e, dt) ==
  [e EXCEPT !.rep_cd = IF e.rep_cd > 0 THEN Max2(0, e.rep_cd - dt) ELSE e.rep_cd]

common_move(e, dt, speed, tape, n) ==
  RepCooldown(
    RandomTurn(BounceY(BounceX(MoveAlong(Resnap(e), Travel(speed, dt)))),
               dt, tape, n),
    dt)

take_damage(e, dmg) == [e EXCEPT !.hp = e.hp - dmg]

EnemyShot(pos, d, speed) == Surge(pos, d, speed, "enemy", SURGE_R, SURGE_LEN, 1, FALSE)

\* the surges an enemy that has moved (m) returns when its shoot_t ran out
EnemyShots(m, h) ==
  IF m.kind = "Virus"
  THEN [i \in 1..4 |-> EnemyShot(m.pos, DirsAll[i], SURGE_SPEED_ENEMY)]
  ELSE IF m.kind = "Bug"
  THEN <<EnemyShot(m.pos,
                   cardinal_from(Vec(h.pos.x - m.pos.x, h.pos.y - m.pos.y)),
                   (SURGE_SPEED_ENEMY * 105) \div 100)>>
  ELSE IF Abs(m.dir.x) > 0
  THEN <<EnemyShot(m.pos, Vec(1, 0), (SURGE_SPEED_ENEMY * 95) \div 100),
         EnemyShot(m.pos, Vec(-1, 0), (SURGE_SPEED_ENEMY * 95) \div 100)>>
  ELSE <<EnemyShot(m.pos, Vec(0, 1), (SURGE_SPEED_ENEMY * 95) \div 100),
         EnemyShot(m.pos, Vec(0, -1), (SURGE_SPEED_ENEMY * 95) \div 100)>>

ShootCd(m) ==
  IF m.kind = "Virus" THEN VIRUS_SHOOT_CD
  ELSE IF m.kind = "Bug" THEN BUG_SHOOT_CD ELSE WORM_SHOOT_CD

\* the rest of Virus.update, Bug.update, Worm.update after common_move gave
\* m: the enemy afterwards, the surges returned and the glitches spawned.
\* The new shoot_t reads draw n + 2 and a Worm's new drop_t draw n + 3.
EnemyAct(m, dt, h, tape, n) ==
  [e |-> [m EXCEPT
            !.drop_t = IF m.kind # "Worm" THEN m.drop_t
                       ELSE IF m.drop_t - dt <= 0
                       THEN uniform(35, 65, Draw(tape, n + 3))
                       ELSE m.drop_t - dt,
            !.shoot_t = IF m.shoot_t - dt <= 0
                        THEN rand_between(ShootCd(m), Draw(tape, n + 2))
                        ELSE m.shoot_t - dt],
   shots |-> IF m.shoot_t - dt <= 0 THEN EnemyShots(m, h) ELSE <<>>,
   glitches |-> IF m.kind = "Worm" /\ m.drop_t - dt <= 0
                THEN <<[pos |-> m.pos, a |-> GLITCH_ALPHA]>> ELSE <<>>]

EnemyUpdate(e, dt, h, tape, n) ==
  EnemyAct(common_move(e, dt, EnemySpeed(e), tape, n), dt, h, tape, n)

\* a variant of on_death whose children keep the parent's tier
OnDeathSameTier(e, tape, n) ==
  IF e.kind = "Virus" /\ e.tier > 0
  THEN [i \in 1..2 |->
          Virus(Vec(e.pos.x + uniform(-10, 10, Draw(tape, n + 2 * (i - 1))),
                    e.pos.y + uniform(-10, 10, Draw(tape, n + 2 * (i - 1) + 1))),
                e.tier, tape, n + 4 + 2 * (i - 1))]
  ELSE <<>>

\* Virus.on_death: the children; the jitter reads draws n .. n + 3 and the
\* children's constructors the draws after them
on_death(e, tape, n) ==
  IF e.kind = "Virus" /\ e.tier > 0
  THEN [i \in 1..2 |->
          Virus(Vec(e.pos.x + uniform(-10, 10, Draw(tape, n + 2 * (i - 1))),
                    e.pos.y + uniform(-10, 10, Draw(tape, n + 2 * (i - 1) + 1))),
                e.tier - 1, tape, n + 4 + 2 * (i - 1))]
  ELSE <<>>

\* ---------------------------------------------------------------- emitters
SurgeEmitter(axis) ==
  [axis |-> axis, fire_t |-> 0, x_or_y |-> 0, dir |-> Vec(1, 0), count |-> 0,
   active |-> FALSE]

\* SurgeEmitter.schedule; reads draws n, n + 1, n + 2
schedule(em, tape, n) ==
  [em EXCEPT
     !.active = TRUE,
     !.count = randint(6, 10, Draw(tape, n)),
     !.x_or_y = IF em.axis = "row"
                THEN randint(2, (H - 2) \div GRID - 2, Draw(tape, n + 1)) * GRID
                ELSE randint(2, (W - 2) \div GRID - 2, Draw(tape, n + 1)) * GRID,
     !.dir = IF em.axis = "row"
             THEN (IF random_below(1, 2, Draw(tape, n + 2)) THEN Vec(1, 0) ELSE Vec(-1, 0))
             ELSE (IF random_below(1, 2, Draw(tape, n + 2)) THEN Vec(0, 1) ELSE Vec(0, -1)),
     !.fire_t = 0]

\* a variant of SurgeEmitter.update that tests the count before the packet
\* is taken off it, and so goes inactive one update after the last packet
EmitterUpdateLate(em, dt) ==
  IF ~em.active THEN [em |-> em, shots |-> <<>>]
  ELSE
    LET ft == em.fire_t - dt
        fires == ft <= 0 /\ em.count > 0
        pos == IF em.axis = "row"
               THEN Vec(IF em.dir.x > 0 THEN 12 ELSE W - 12, em.x_or_y)
               ELSE Vec(em.x_or_y, IF em.dir.y > 0 THEN 12 ELSE H - 12)
    IN [em |-> [em EXCEPT !.fire_t = IF fires THEN EMIT_SPACING ELSE ft,
                          !.count = IF fires THEN em.count - 1 ELSE em.count,
                          !.active = ~(em.count <= 0)],
        shots |-> IF fires
                  THEN <<Surge(pos, em.dir, SURGE_SPEED_NATURAL, "natural",
                               SURGE_R, SURGE_LEN, 1, FALSE)>>
                  ELSE <<>>]

\* SurgeEmitter.update: the emitter afterwards and the surges it appended
EmitterUpdate(em, dt) ==
  IF ~em.active THEN [em |-> em, shots |-> <<>>]
  ELSE
    LET ft == em.fire_t - dt
        fires == ft <= 0 /\ em.count > 0
        cnt == IF fires THEN em.count - 1 ELSE em.count
        pos == IF em.axis = "row"
               THEN Vec(IF em.dir.x > 0 THEN 12 ELSE W - 12, em.x_or_y)
               ELSE Vec(em.x_or_y, IF em.dir.y > 0 THEN 12 ELSE H - 12)
    IN [em |-> [em EXCEPT !.fire_t = IF fires THEN EMIT_SPACING ELSE ft,
                          !.count = cnt,
                          !.active = ~(cnt <= 0)],
        shots |-> IF fires
                  THEN <<Surge(pos, em.dir, SURGE_SPEED_NATURAL, "natural",
                               SURGE_R, SURGE_LEN, 1, FALSE)>>
                  ELSE <<>>]


\* -------------------------------------------------------- sector / spawning
\* Game.random_grid_pos; reads draws n and n + 1
random_grid_pos(tape, n) ==
  Vec(randint(2, (W - 2) \div GRID - 2, Draw(tape, n)) * GRID,
      randint(2, (H - 2) \div GRID - 2, Draw(tape, n + 1)) * GRID)

\* the enemy list Game.build_sector builds; the k-th constructor call
\* (k = 0, 1, ...) starts at draw 7 * k
BuildEnemies(n_virus, n_bug, n_worm, tape) ==
  [k \in 1..(n_virus + n_bug + n_worm) |->
     LET n == 7 * (k - 1)
         pos == random_grid_pos(tape, n)
     IN IF k <= n_virus THEN Virus(pos, 2, tape, n + 2)
        ELSE IF k <= n_virus + n_bug THEN Bug(pos, tape, n + 2)
        ELSE Worm(pos, tape, n + 2)]

\* the enemy counts handle_events passes to build_sector for a sector
SectorCounts(sec) ==
  <<SECTOR_START_ENEMIES[1] + sec \div 2,
    SECTOR_START_ENEMIES[2] + sec \div 2,
    SECTOR_START_ENEMIES[3] + (IF sec % 3 = 0 THEN 1 ELSE 0)>>

\* ------------------------------------------------------------------ mitosis
\* the child of the pair (ei, ej); its position's jitter reads draws n, n + 1
MitosisChild(ei, ej, tape, n) ==
  LET pos == Vec((ei.pos.x + ej.pos.x) \div 2 + uniform(-6, 6, Draw(tape, n)),
                 (ei.pos.y + ej.pos.y) \div 2 + uniform(-6, 6, Draw(tape, n + 1)))
      child == IF ei.kind = "Virus" THEN Virus(pos, ei.tier, tape, n + 2)
               ELSE IF ei.kind = "Bug" THEN Bug(pos, tape, n + 2)
               ELSE Worm(pos, tape, n + 2)
  IN [child EXCEPT !.rep_cd = REP_CD]

\* (variant) a test that forgets the cooldowns
PairFiresOnCooldown(en, to_add, i, j) ==
  /\ en[i].kind = en[j].kind
  /\ Within(en[i].pos, en[j].pos, en[i].r + en[j].r)
  /\ ~(Len(en) + Len(to_add) >= MAX_ENEMIES_ON_FIELD)

\* (variant) a test that forgets the children already queued
PairFiresUnqueued(en, to_add, i, j) ==
  /\ en[i].kind = en[j].kind
  /\ ~(en[i].rep_cd > 0 \/ en[j].rep_cd > 0)
  /\ Within(en[i].pos, en[j].pos, en[i].r + en[j].r)
  /\ ~(Len(en) >= MAX_ENEMIES_ON_FIELD)

\* the test that lets the pair (ei, ej) spawn, with to_add children queued
MitosisPairFires(en, to_add, i, j) ==
  /\ en[i].kind = en[j].kind
  /\ ~(en[i].rep_cd > 0 \/ en[j].rep_cd > 0)
  /\ Within(en[i].pos, en[j].pos, en[i].r + en[j].r)
  /\ ~(Len(en) + Len(to_add) >= MAX_ENEMIES_ON_FIELD)

\* the inner loop of Game.handle_enemy_mitosis for the i-th enemy, from the
\* j-th on; acc holds the enemy list and to_add
RECURSIVE MitosisInner(_, _, _, _)
MitosisInner(acc, i, j, tape) ==
  IF j > Len(acc.en) THEN acc
  ELSE IF MitosisPairFires(acc.en, acc.to_add, i, j)
    THEN MitosisInner(
           [en |-> [acc.en EXCEPT ![i].rep_cd = REP_CD, ![j].rep_cd = REP_CD],
            to_add |-> Append(acc.to_add,
                              MitosisChild(acc.en[i], acc.en[j], tape, i + 2 * j))],
           i, j + 1, tape)
    ELSE MitosisInner(acc, i, j + 1, tape)

\* the outer loop of Game.handle_enemy_mitosis from the i-th enemy on
RECURSIVE MitosisLoop(_, _, _)
MitosisLoop(acc, i, tape) ==
  IF i > Len(acc.en) THEN acc
  ELSE MitosisLoop(MitosisInner(acc, i, i + 1, tape), i + 1, tape)

\* the enemy list with to_add appended
Extended(acc) == acc.en \o acc.to_add

handle_enemy_mitosis(en, tape) ==
  Extended(MitosisLoop([en |-> en, to_add |-> <<>>], 1, tape))

\* ------------------------------------------------------------ surge cancels
\* the pair (si, sj) clashes
Clash(si, sj) ==
  /\ \/ is_friend(si.owner) /\ is_foe(sj.owner)
     \/ is_friend(sj.owner) /\ is_foe(si.owner)
  /\ Within(si.pos, sj.pos, si.r + sj.r + 1)

\* (variant) a clash that destroys both surges whatever their owner
ClashDeadBoth(ss, i, j) == {i, j}

\* (variant) a clash that spares the overclock surge only when it comes first
ClashDeadOcFirst(ss, i, j) ==
  IF ss[i].owner = "oc" /\ is_foe(ss[j].owner) THEN {j} ELSE {i, j}

\* the indices a clash of (i, j) adds to dead
ClashDead(ss, i, j) ==
  IF ss[i].owner = "oc" /\ is_foe(ss[j].owner) THEN {j}
  ELSE IF ss[j].owner = "oc" /\ is_foe(ss[i].owner) THEN {i}
  ELSE {i, j}

\* (variant) a clash that feeds the meter whenever a friendly surge is in it
ClashedAnyFriend(ss, acc, i, j) ==
  [dead |-> acc.dead \cup ClashDead(ss, i, j),
   hero |-> add_oc(acc.hero, OC_FILL_PER_CANCEL)]

\* dead and the hero after the clash of the pair (i, j)
Clashed(ss, acc, i, j) ==
  [dead |-> acc.dead \cup ClashDead(ss, i, j),
   hero |-> IF "player" \in {ss[i].owner, ss[j].owner}
            THEN add_oc(acc.hero, OC_FILL_PER_CANCEL) ELSE acc.hero]

\* the inner loop of Game.handle_surge_cancels for the i-th surge, from the
\* j-th on; acc holds dead and the hero.  Only "j in dead" is tested here.
RECURSIVE CancelInner(_, _, _, _)
CancelInner(ss, acc, i, j) ==
  IF j > Len(ss) THEN acc
  ELSE IF j \in acc.dead THEN CancelInner(ss, acc, i, j + 1)
  ELSE IF Clash(ss[i], ss[j]) THEN CancelInner(ss, Clashed(ss, acc, i, j), i, j + 1)
  ELSE CancelInner(ss, acc, i, j + 1)

\* the outer loop from the i-th surge on: "i in dead" is tested on entry
RECURSIVE CancelLoop(_, _, _)
CancelLoop(ss, acc, i) ==
  IF i > Len(ss) THEN acc
  ELSE IF i \in acc.dead THEN CancelLoop(ss, acc, i + 1)
  ELSE CancelLoop(ss, CancelInner(ss, acc, i, i + 1), i + 1)

\* s without the elements whose index is in dead
RECURSIVE DropIndices(_, _, _)
DropIndices(s, dead, k) ==
  IF k > Len(s) THEN <<>>
  ELSE (IF k \in dead THEN <<>> ELSE <<s[k]>>) \o DropIndices(s, dead, k + 1)

handle_surge_cancels(ss, h) ==
  LET r == CancelLoop(ss, [dead |-> {}, hero |-> h], 1)
  IN [surges |-> DropIndices(ss, r.dead, 1), hero |-> r.hero, dead |-> r.dead]


\* --------------------------------------------------------------- surge hits
\* a variant of DeathSpawns that appends every child, full field or not
DeathSpawnsUncapped(e, pop, tape, n) == on_death(e, tape, n)

\* the children of e that are appended when pop enemies are left after e's
\* removal: each one only while len(self.enemies) < MAX_ENEMIES_ON_FIELD
DeathSpawns(e, pop, tape, n) ==
  LET children == on_death(e, tape, n)
  IN SubSeq(children, 1,
            Min2(Len(children), Max2(0, MAX_ENEMIES_ON_FIELD - pop)))

\* a variant of the enemy loop that scores a contact only when it kills
RECURSIVE HitScanKillsOnly(_, _, _, _, _, _, _, _, _)
HitScanKillsOnly(s, snap, k, kept, kids, h, sc, tape, n) ==
  IF k > Len(snap)
  THEN [enemies |-> kept \o kids, hero |-> h, score |-> sc, consumed |-> FALSE]
  ELSE
    LET e == snap[k]
    IN IF ~Within(e.pos, s.pos, e.r + s.r)
       THEN HitScanKillsOnly(s, snap, k + 1, Append(kept, e), kids, h, sc, tape, n)
       ELSE
         LET e2 == take_damage(e, s.dmg)
             died == e2.hp <= 0
             h2 == IF s.owner = "player" /\ died THEN add_oc(h, OC_FILL_PER_KILL) ELSE h
             sc2 == sc + (IF ~died THEN 0 ELSE IF s.owner = "player" THEN 165 ELSE 125)
             kept2 == IF died THEN kept ELSE Append(kept, e2)
             pop == Len(kept) + (Len(snap) - k) + Len(kids)
             kids2 == IF died THEN kids \o DeathSpawns(e2, pop, tape, n + k) ELSE kids
         IN IF ~s.pierce
            THEN [enemies |-> kept2 \o SubSeq(snap, k + 1, Len(snap)) \o kids2,
                  hero |-> h2, score |-> sc2, consumed |-> TRUE]
            ELSE HitScanKillsOnly(s, snap, k + 1, kept2, kids2, h2, sc2, tape, n)

\* a variant of the enemy loop in which no surge stops at its first hit
RECURSIVE HitScanThrough(_, _, _, _, _, _, _, _, _)
HitScanThrough(s, snap, k, kept, kids, h, sc, tape, n) ==
  IF k > Len(snap)
  THEN [enemies |-> kept \o kids, hero |-> h, score |-> sc, consumed |-> FALSE]
  ELSE
    LET e == snap[k]
    IN IF ~Within(e.pos, s.pos, e.r + s.r)
       THEN HitScanThrough(s, snap, k + 1, Append(kept, e), kids, h, sc, tape, n)
       ELSE
         LET e2 == take_damage(e, s.dmg)
             died == e2.hp <= 0
             h2 == IF s.owner = "player" THEN add_oc(h, OC_FILL_PER_KILL) ELSE h
             sc2 == sc + (IF s.owner = "player" THEN 45 ELSE 35)
                       + (IF ~died THEN 0 ELSE IF s.owner = "player" THEN 120 ELSE 90)
             kept2 == IF died THEN kept ELSE Append(kept, e2)
             pop == Len(kept) + (Len(snap) - k) + Len(kids)
             kids2 == IF died THEN kids \o DeathSpawns(e2, pop, tape, n + k) ELSE kids
         IN HitScanThrough(s, snap, k + 1, kept2, kids2, h2, sc2, tape, n)

\* the enemy loop of Game.handle_surge_hits for the friendly surge s, from
\* the k-th enemy of snap (the copy of the enemy list) on.  kept are the
\* enemies before k still in the list, kids the children appended so far.
RECURSIVE HitScan(_, _, _, _, _, _, _, _, _)
HitScan(s, snap, k, kept, kids, h, sc, tape, n) ==
  IF k > Len(snap)
  THEN [enemies |-> kept \o kids, hero |-> h, score |-> sc, consumed |-> FALSE]
  ELSE
    LET e == snap[k]
    IN IF ~Within(e.pos, s.pos, e.r + s.r)
       THEN HitScan(s, snap, k + 1, Append(kept, e), kids, h, sc, tape, n)
       ELSE
         LET e2 == take_damage(e, s.dmg)
             died == e2.hp <= 0
             h2 == IF s.owner = "player" THEN add_oc(h, OC_FILL_PER_KILL) ELSE h
             sc2 == sc + (IF s.owner = "player" THEN 45 ELSE 35)
                       + (IF ~died THEN 0 ELSE IF s.owner = "player" THEN 120 ELSE 90)
             kept2 == IF died THEN kept ELSE Append(kept, e2)
             pop == Len(kept) + (Len(snap) - k) + Len(kids)
             kids2 == IF died THEN kids \o DeathSpawns(e2, pop, tape, n + k) ELSE kids
         IN IF ~s.pierce
            THEN [enemies |-> kept2 \o SubSeq(snap, k + 1, Len(snap)) \o kids2,
                  hero |-> h2, score |-> sc2, consumed |-> TRUE]
            ELSE HitScan(s, snap, k + 1, kept2, kids2, h2, sc2, tape, n)

\* a variant of the surge loop in which a hostile surge lying on an enemy
\* is run through the enemy loop like a friendly one
RECURSIVE HitLoopFriendlyFire(_, _, _, _, _, _, _)
HitLoopFriendlyFire(ss, m, gone, en, h, sc, tape) ==
  IF m > Len(ss)
  THEN [surges |-> DropIndices(ss, gone, 1), enemies |-> en, hero |-> h,
        score |-> sc]
  ELSE IF \/ is_friend(ss[m].owner)
          \/ \E j \in DOMAIN en : Within(en[j].pos, ss[m].pos, en[j].r + ss[m].r)
    THEN LET r == HitScan(ss[m], en, 1, <<>>, <<>>, h, sc, tape, m)
         IN HitLoopFriendlyFire(ss, m + 1,
                                IF r.consumed THEN gone \cup {m} ELSE gone,
                                r.enemies, r.hero, r.score, tape)
    ELSE IF Within(h.pos, ss[m].pos, HERO_R + ss[m].r)
      THEN HitLoopFriendlyFire(ss, m + 1, gone \cup {m}, en, hurt(h), sc, tape)
      ELSE HitLoopFriendlyFire(ss, m + 1, gone, en, h, sc, tape)

\* a variant of the surge loop in which an invulnerable hero leaves the
\* hostile surge in the list
RECURSIVE HitLoopShielded(_, _, _, _, _, _, _)
HitLoopShielded(ss, m, gone, en, h, sc, tape) ==
  IF m > Len(ss)
  THEN [surges |-> DropIndices(ss, gone, 1), enemies |-> en, hero |-> h,
        score |-> sc]
  ELSE IF is_friend(ss[m].owner)
    THEN LET r == HitScan(ss[m], en, 1, <<>>, <<>>, h, sc, tape, m)
         IN HitLoopShielded(ss, m + 1, IF r.consumed THEN gone \cup {m} ELSE gone,
                            r.enemies, r.hero, r.score, tape)
    ELSE IF Within(h.pos, ss[m].pos, HERO_R + ss[m].r) /\ h.ifr = 0
      THEN HitLoopShielded(ss, m + 1, gone \cup {m}, en, hurt(h), sc, tape)
      ELSE HitLoopShielded(ss, m + 1, gone, en, h, sc, tape)

\* the surge loop of Game.handle_surge_hits from the m-th surge of ss (the
\* copy of the surge list) on; gone are the indices removed from the list
RECURSIVE HitLoop(_, _, _, _, _, _, _)
HitLoop(ss, m, gone, en, h, sc, tape) ==
  IF m > Len(ss)
  THEN [surges |-> DropIndices(ss, gone, 1), enemies |-> en, hero |-> h,
        score |-> sc]
  ELSE IF is_friend(ss[m].owner)
    THEN LET r == HitScan(ss[m], en, 1, <<>>, <<>>, h, sc, tape, m)
         IN HitLoop(ss, m + 1, IF r.consumed THEN gone \cup {m} ELSE gone,
                    r.enemies, r.hero, r.score, tape)
    ELSE IF Within(h.pos, ss[m].pos, HERO_R + ss[m].r)
      THEN HitLoop(ss, m + 1, gone \cup {m}, en, hurt(h), sc, tape)
      ELSE HitLoop(ss, m + 1, gone, en, h, sc, tape)

handle_surge_hits(ss, en, h, sc, tape) == HitLoop(ss, 1, {}, en, h, sc, tape)

\* --------------------------------------------------- blocks of Game.update
\* Game.fire_overclock_blast: the four surges appended ...
BlastSurges(h) ==
  [i \in 1..4 |-> Surge(h.pos, DirsAll[i], OC_SURGE_SPEED, "oc", OC_SURGE_R,
                        OC_SURGE_TTL, OC_SURGE_DMG, TRUE)]

\* ... and the surge list and hero after the "OVERCLOCK BLAST trigger" block
fire_overclock_blast(ss, h) ==
  [surges |-> ss \o BlastSurges(h), hero |-> reset_overclock(h)]

BlastBlock(ss, h, k) ==
  IF k.blast /\ ready_overclock(h) THEN fire_overclock_blast(ss, h)
  ELSE [surges |-> ss, hero |-> h]

\* the "Normal firing" block
FireBlock(ss, h, k) ==
  IF k.fire /\ can_shoot(h)
  THEN [surges |-> Append(ss, ShootSurge(h, k.aim)), hero |-> ShootHero(h)]
  ELSE [surges |-> ss, hero |-> h]

\* a variant of the scheduling block whose timer runs whether or not a
\* train is on its way
EmitBlockAlwaysCounting(ss, nt, row, col, dt, tape) ==
  LET nt1 == nt - dt
      due == nt1 <= 0
      pickRow == random_below(1, 2, Draw(tape, 0))
      row1 == IF due /\ pickRow THEN schedule(row, tape, 1) ELSE row
      col1 == IF due /\ ~pickRow THEN schedule(col, tape, 1) ELSE col
      ur == EmitterUpdate(row1, dt)
      uc == EmitterUpdate(col1, dt)
  IN [surges |-> ss \o ur.shots \o uc.shots,
      nat_timer |-> IF due THEN rand_between(NAT_SURGE_EVERY, Draw(tape, 4)) ELSE nt1,
      emit_row |-> ur.em, emit_col |-> uc.em]

\* the "Natural surge scheduling" block; the axis reads draw 0, schedule
\* draws 1..3 and the new nat_timer draw 4
EmitBlock(ss, nt, row, col, dt, tape) ==
  LET idle == ~(row.active \/ col.active)
      nt1 == IF idle THEN nt - dt ELSE nt
      due == idle /\ nt1 <= 0
      pickRow == random_below(1, 2, Draw(tape, 0))
      row1 == IF due /\ pickRow THEN schedule(row, tape, 1) ELSE row
      col1 == IF due /\ ~pickRow THEN schedule(col, tape, 1) ELSE col
      ur == EmitterUpdate(row1, dt)
      uc == EmitterUpdate(col1, dt)
  IN [surges |-> ss \o ur.shots \o uc.shots,
      nat_timer |-> IF due THEN rand_between(NAT_SURGE_EVERY, Draw(tape, 4)) ELSE nt1,
      emit_row |-> ur.em, emit_col |-> uc.em]

\* the loop of the "Enemies update" block from the i-th enemy on; the i-th
\* enemy's update starts at draw 5 * i
RECURSIVE EnemiesLoop(_, _, _, _, _, _, _, _)
EnemiesLoop(en, i, out, shots, gl, h, dt, tape) ==
  IF i > Len(en) THEN [enemies |-> out, shots |-> shots, glitches |-> gl]
  ELSE LET u == EnemyUpdate(en[i], dt, h, tape, 5 * i)
       IN EnemiesLoop(en, i + 1, Append(out, u.e), shots \o u.shots,
                      gl \o u.glitches, h, dt, tape)

\* the "Enemies update" block: the enemies afterwards, new_surges and the
\* glitches spawned
EnemiesBlock(en, h, dt, tape) == EnemiesLoop(en, 1, <<>>, <<>>, <<>>, h, dt, tape)

\* the surge as the list comprehension keeps it, or nothing
KeepMoved(m) == IF SurgeAlive(m) THEN <<m>> ELSE <<>>

\* the "Surges move" block, from the i-th surge on
RECURSIVE MoveLoop(_, _, _)
MoveLoop(ss, i, dt) ==
  IF i > Len(ss) THEN <<>>
  ELSE KeepMoved(SurgeMoved(ss[i], dt)) \o MoveLoop(ss, i + 1, dt)

MoveBlock(ss, dt) == MoveLoop(ss, 1, dt)

\* the "Glitches decay" block
RECURSIVE GlitchDecay(_, _)
GlitchDecay(gs, dt) ==
  IF gs = <<>> THEN <<>>
  ELSE (IF Head(gs).a - dt > 0
        THEN <<[Head(gs) EXCEPT !.a = Max2(0, Head(gs).a - dt)]>> ELSE <<>>)
       \o GlitchDecay(Tail(gs), dt)

\* the "Glitch hazards vs hero" block
RECURSIVE HazardBlock(_, _)
HazardBlock(gs, h) ==
  IF gs = <<>> THEN h
  ELSE HazardBlock(Tail(gs),
                   IF Within(h.pos, Head(gs).pos, HERO_R + GLITCH_R) THEN hurt(h) ELSE h)

\* the "Win/Lose" block: the new state and highscore
\* a variant of WinLose that tests the empty field before the hero's death
WinLoseClearFirst(st, h, en, sc, hs) ==
  IF Len(en) = 0 THEN [state |-> "sectorclear", highscore |-> Max2(hs, sc)]
  ELSE IF ~alive(h) THEN [state |-> "gameover", highscore |-> Max2(hs, sc)]
  ELSE [state |-> st, highscore |-> hs]

\* A pass that only ever declares the sector clear and never the game lost.
WinLoseClearOnly(st, h, en, sc, hs) ==
  IF Len(en) = 0
  THEN [state |-> "sectorclear", highscore |-> Max2(hs, sc)]
  ELSE [state |-> st, highscore |-> hs]

\* A pass that writes the score over the high score whenever the game ends.
WinLoseLastScore(st, h, en, sc, hs) ==
  IF ~alive(h) THEN [state |-> "gameover", highscore |-> sc]
  ELSE IF Len(en) = 0 THEN [state |-> "sectorclear", highscore |-> sc]
  ELSE [state |-> st, highscore |-> hs]

WinLose(st, h, en, sc, hs) ==
  IF ~alive(h) THEN [state |-> "gameover", highscore |-> Max2(hs, sc)]
  ELSE IF Len(en) = 0 THEN [state |-> "sectorclear", highscore |-> Max2(hs, sc)]
  ELSE [state |-> st, highscore |-> hs]


\* --------------------------------------------------------------- audio sink
\* the sounds, in the order SFX.__init__ makes them
SoundOrder ==
  <<"menu", "fire", "enemyfire", "cancel", "hit", "hurt", "explode", "over_on",
    "over_off", "win", "lose", "natural", "clone">>
SoundKeys == {SoundOrder[i] : i \in DOMAIN SoundOrder}

\* SFX.__init__: mixer tells whether the mixer came up, made how many sounds
\* were made before make_tone or make_dual_tone raised (all of them: none
\* raised).  loaded are the s_* attributes that exist afterwards; fault
\* records a play call that raised, which ends the pass it is made in.
SFX(mixer, made) ==
  [enabled |-> mixer /\ made = Len(SoundOrder),
   loaded |-> IF mixer THEN {SoundOrder[i] : i \in 1..made} ELSE {},
   fault |-> FALSE]

Sinks == {SFX(mixer, made) : mixer \in BOOLEAN, made \in 0..Len(SoundOrder)}

\* a variant of SFX.play without the test of enabled
PlayUnguarded(s, key) ==
  IF SoundKeys \subseteq s.loaded THEN s ELSE [s EXCEPT !.fault = TRUE]

\* SFX.play: the sink afterwards.  A disabled sink returns at once; an
\* enabled one builds the table of all its sounds, which raises if one of
\* the attributes is missing, and plays the sound of the key.
play(s, key) ==
  IF ~s.enabled THEN s
  ELSE IF SoundKeys \subseteq s.loaded THEN s ELSE [s EXCEPT !.fault = TRUE]

\* the sink after the play calls a block makes, ks being the sounds the
\* block plays
RECURSIVE PlayAll(_, _)
PlayAll(s, ks) ==
  IF ks = {} THEN s
  ELSE LET k == CHOOSE k \in ks : TRUE
       IN PlayAll(play(s, k), ks \ {k})


\* ==================================================================== state
VARIABLES
  state,        \* Game.state
  sector, score, highscore,
  hero, enemies, surges, glitches,
  nat_timer, emit_row, emit_col,
  pc,           \* position in Game.run: "frame" between two frames, else the
                \* block of Game.update that runs next
  dt, keys,     \* the frame's clock tick and input snapshot
  seed, frame,  \* the random generator's seed; frames run so far
  last,         \* what ran last: "init", "event", "idle" or "update"
  losses,       \* history of hp losses: since, the play time since hero.hp
                \* last dropped, and gap, the play time between the last two
                \* drops, both capped at HERO_IFRAMES (which also stands for
                \* "never"); hero_since and hero_gap, the same for the
                \* current Hero object only
  shots,        \* history of player shots: the same four times for the
                \* creation of player surges, capped at HERO_SHOT_CD
  pre,          \* history: the game as the block that ran last found it
  oc_made,      \* history: oc surges created so far
  full_blasts,  \* history: blasts triggered with a full meter so far
  sfx           \* Game.sfx, the audio sink

vars == <<state, sector, score, highscore, hero, enemies, surges, glitches,
          nat_timer, emit_row, emit_col, pc, dt, keys, seed, frame, last,
          losses, shots, pre, oc_made, full_blasts, sfx>>

gameVars == <<state, sector, score, highscore, hero, enemies, surges, glitches,
              nat_timer, emit_row, emit_col>>
history == <<losses, shots, oc_made, full_blasts>>

NoLosses ==
  [since |-> HERO_IFRAMES, gap |-> HERO_IFRAMES,
   hero_since |-> HERO_IFRAMES, hero_gap |-> HERO_IFRAMES]

NoShots ==
  [since |-> HERO_SHOT_CD, gap |-> HERO_SHOT_CD,
   hero_since |-> HERO_SHOT_CD, hero_gap |-> HERO_SHOT_CD]

\* what pre records
Snapshot ==
  [state |-> state, score |-> score, hero |-> hero, enemies |-> enemies,
   surges |-> surges, glitches |-> glitches]

\* the tape as the calls of the current frame read it
TapeNow == [i \in 1..TapeLen |-> seed[((i - 1 + frame) % TapeLen) + 1]]

\* no play call has raised: an exception leaves Game.run and ends the program
Audible == ~sfx.fault

\* the self.sfx.play calls of a block of update
Sound(played) == sfx' = PlayAll(sfx, played)

\* ------------------------------------------------------------------- inputs
NoKeys == [mx |-> 0, my |-> 0, fire |-> FALSE, blast |-> FALSE, aim |-> Vec(0, 0)]

\* the input snapshots explored: movement keys' sum per axis, fire (left
\* mouse or SPACE), blast (a SHIFT key), aim (mouse position minus hero.pos)
KeySnapshots ==
  { [NoKeys EXCEPT !.my = -1],
    [NoKeys EXCEPT !.fire = TRUE],
    [NoKeys EXCEPT !.fire = TRUE, !.blast = TRUE, !.aim = Vec(-3, -40)],
    [NoKeys EXCEPT !.blast = TRUE, !.mx = -1, !.my = -1] }

\* the clock ticks explored, in cs: a 50 fps frame and two hitches
Ticks == {2, 10, 50}

Events == {"K_p", "K_r", "K_SPACE", "MOUSE1"}

\* -------------------------------------------------------------------- Init
\* Game.__init__
Init ==
  /\ state = "menu" /\ sector = 1 /\ score = 0 /\ highscore = 0
  /\ hero = HeroNew(CENTER)
  /\ enemies = <<>> /\ surges = <<>> /\ glitches = <<>>
  /\ seed \in Tapes
  /\ nat_timer = rand_between(NAT_SURGE_EVERY, Draw(seed, 0))
  /\ emit_row = SurgeEmitter("row") /\ emit_col = SurgeEmitter("col")
  /\ pc = "frame" /\ dt = 0 /\ keys = NoKeys /\ frame = 0 /\ last = "init"
  /\ losses = NoLosses /\ shots = NoShots
  /\ pre = Snapshot /\ oc_made = 0 /\ full_blasts = 0
  /\ \E s \in Sinks : sfx = play(s, "menu")

\* ------------------------------------------------------------ handle_events
\* a variant of build_sector that moves the old hero back to the centre
\* instead of making a new one
BuildSectorKeepHero(n_virus, n_bug, n_worm) ==
  /\ enemies' = BuildEnemies(n_virus, n_bug, n_worm, TapeNow)
  /\ surges' = <<>>
  /\ glitches' = <<>>
  /\ hero' = [hero EXCEPT !.pos = CENTER, !.ifr = 0, !.cd = 0]
  /\ nat_timer' = rand_between(NAT_SURGE_EVERY,
                               Draw(TapeNow, 7 * (n_virus + n_bug + n_worm)))
  /\ emit_row' = [emit_row EXCEPT !.active = FALSE]
  /\ emit_col' = [emit_col EXCEPT !.active = FALSE]
  /\ losses' = [losses EXCEPT !.hero_since = HERO_IFRAMES,
                               !.hero_gap = HERO_IFRAMES]
  /\ shots' = [shots EXCEPT !.hero_since = HERO_SHOT_CD,
                             !.hero_gap = HERO_SHOT_CD]

\* Game.build_sector
build_sector(n_virus, n_bug, n_worm) ==
  /\ enemies' = BuildEnemies(n_virus, n_bug, n_worm, TapeNow)
  /\ surges' = <<>>
  /\ glitches' = <<>>
  /\ hero' = HeroNew(CENTER)
  /\ nat_timer' = rand_between(NAT_SURGE_EVERY,
                               Draw(TapeNow, 7 * (n_virus + n_bug + n_worm)))
  /\ emit_row' = [emit_row EXCEPT !.active = FALSE]
  /\ emit_col' = [emit_col EXCEPT !.active = FALSE]
  /\ losses' = [losses EXCEPT !.hero_since = HERO_IFRAMES,
                               !.hero_gap = HERO_IFRAMES]
  /\ shots' = [shots EXCEPT !.hero_since = HERO_SHOT_CD,
                             !.hero_gap = HERO_SHOT_CD]

\* the values self.state takes while handle_events treats one event: before
\* the event and after each of the handler's successive `if` statements
\* (KEYDOWN: pause toggle, restart, start, advance; MOUSEBUTTONDOWN: start,
\* advance)
EventStates(ev, st) ==
  IF ev = "MOUSE1"
  THEN LET m1 == IF st = "menu" THEN "play" ELSE st
           m2 == IF m1 = "sectorclear" THEN "play" ELSE m1
       IN <<st, m1, m2>>
  ELSE LET s1 == IF ev = "K_p" /\ st \in {"play", "paused"}
                 THEN (IF st = "play" THEN "paused" ELSE "play") ELSE st
           s2 == IF ev = "K_r" /\ s1 = "gameover" THEN "play" ELSE s1
           s3 == IF s2 = "menu" /\ ev = "K_SPACE" THEN "play" ELSE s2
           s4 == IF s3 = "sectorclear" /\ ev = "K_SPACE" THEN "play" ELSE s3
       IN <<st, s1, s2, s3, s4>>

\* a variant of HandleEvent in which a restart leads back to the menu
HandleEventToMenu(ev) ==
  /\ pc = "frame"
  /\ \/ /\ ev = "K_p" /\ state \in {"play", "paused"}
        /\ state' = IF state = "play" THEN "paused" ELSE "play"
        /\ UNCHANGED <<sector, score, highscore, hero, enemies, surges, glitches,
                       nat_timer, emit_row, emit_col, losses, shots>>
     \/ /\ \/ ev = "K_r" /\ state = "gameover"
           \/ ev \in {"K_SPACE", "MOUSE1"} /\ state = "menu"
        /\ score' = 0
        /\ sector' = 1
        /\ build_sector(SECTOR_START_ENEMIES[1], SECTOR_START_ENEMIES[2],
                        SECTOR_START_ENEMIES[3])
        /\ state' = IF state = "gameover" THEN "menu" ELSE "play"
        /\ UNCHANGED highscore
     \/ /\ ev \in {"K_SPACE", "MOUSE1"} /\ state = "sectorclear"
        /\ sector' = sector + 1
        /\ build_sector(SectorCounts(sector + 1)[1], SectorCounts(sector + 1)[2],
                        SectorCounts(sector + 1)[3])
        /\ state' = "play"
        /\ UNCHANGED <<score, highscore>>
  /\ last' = "event"
  /\ UNCHANGED <<pc, dt, keys, seed, frame, pre, oc_made, full_blasts>>
  /\ Audible /\ UNCHANGED sfx

\* one event of the queue, as Game.handle_events treats it
HandleEvent(ev) ==
  /\ pc = "frame"
  /\ \/ /\ ev = "K_p" /\ state \in {"play", "paused"}
        /\ state' = IF state = "play" THEN "paused" ELSE "play"
        /\ UNCHANGED <<sector, score, highscore, hero, enemies, surges, glitches,
                       nat_timer, emit_row, emit_col, losses, shots>>
     \/ /\ \/ ev = "K_r" /\ state = "gameover"
           \/ ev \in {"K_SPACE", "MOUSE1"} /\ state = "menu"
        /\ score' = 0
        /\ sector' = 1
        /\ build_sector(SECTOR_START_ENEMIES[1], SECTOR_START_ENEMIES[2],
                        SECTOR_START_ENEMIES[3])
        /\ state' = "play"
        /\ UNCHANGED highscore
     \/ /\ ev \in {"K_SPACE", "MOUSE1"} /\ state = "sectorclear"
        /\ sector' = sector + 1
        /\ build_sector(SectorCounts(sector + 1)[1], SectorCounts(sector + 1)[2],
                        SectorCounts(sector + 1)[3])
        /\ state' = "play"
        /\ UNCHANGED <<score, highscore>>
  /\ last' = "event"
  /\ UNCHANGED <<pc, dt, keys, seed, frame, pre, oc_made, full_blasts>>
  /\ Audible /\ UNCHANGED sfx

Event == \E ev \in Events : HandleEvent(ev)

\* ---------------------------------------------------------------- Game.run
\* a variant of FramePaused in which the inter-train timer keeps running
FramePausedTicking ==
  /\ pc = "frame" /\ frame < MaxFrames /\ state = "paused"
  /\ \E t \in Ticks : dt' = t /\ nat_timer' = nat_timer - t
  /\ frame' = frame + 1 /\ last' = "idle"
  /\ UNCHANGED <<state, sector, score, highscore, hero, enemies, surges,
                 glitches, emit_row, emit_col, pc, keys, seed, history, pre>>
  /\ Audible /\ UNCHANGED sfx

\* a frame while paused: run draws and continues, update is not called
FramePaused ==
  /\ pc = "frame" /\ frame < MaxFrames /\ state = "paused"
  /\ \E t \in Ticks : dt' = t
  /\ frame' = frame + 1 /\ last' = "idle"
  /\ UNCHANGED <<gameVars, pc, keys, seed, history, pre>>
  /\ Audible /\ UNCHANGED sfx

\* a frame in menu, gameover or sectorclear: update returns at once
FrameIdle ==
  /\ pc = "frame" /\ frame < MaxFrames
  /\ state \in {"menu", "gameover", "sectorclear"}
  /\ \E t \in Ticks : dt' = t
  /\ frame' = frame + 1 /\ last' = "idle"
  /\ UNCHANGED <<gameVars, pc, keys, seed, history, pre>>
  /\ Audible /\ UNCHANGED sfx

\* ------------------------------------------------------------- Game.update
\* a frame in play: the clock ticks, update reads the keys and runs
\* hero.update
StepHero ==
  /\ pc = "frame" /\ frame < MaxFrames /\ state = "play"
  /\ \E t \in Ticks, k \in KeySnapshots :
       /\ dt' = t /\ keys' = k
       /\ hero' = HeroUpdate(hero, t, k)
       /\ losses' = [losses EXCEPT
                       !.since = Min2(HERO_IFRAMES, losses.since + t),
                       !.hero_since = Min2(HERO_IFRAMES, losses.hero_since + t)]
       /\ shots' = [shots EXCEPT
                      !.since = Min2(HERO_SHOT_CD, shots.since + t),
                      !.hero_since = Min2(HERO_SHOT_CD, shots.hero_since + t)]
  /\ frame' = frame + 1 /\ pc' = "blast" /\ pre' = Snapshot
  /\ UNCHANGED <<state, sector, score, highscore, enemies, surges, glitches,
                 nat_timer, emit_row, emit_col, seed, last, oc_made, full_blasts>>
  /\ Audible /\ UNCHANGED sfx

\* the history of overclock surges across a block that appends surges
OcHistory ==
  oc_made' = oc_made + Cardinality({i \in 1..Len(surges') : surges'[i].owner = "oc"})
                     - Cardinality({i \in 1..Len(surges) : surges[i].owner = "oc"})

StepBlast ==
  /\ pc = "blast"
  /\ LET r == BlastBlock(surges, hero, keys)
     IN /\ surges' = r.surges /\ hero' = r.hero
  /\ OcHistory
  /\ full_blasts' = IF keys.blast /\ hero.oc_meter = OC_MAX
                    THEN full_blasts + 1 ELSE full_blasts
  /\ pc' = "fire" /\ pre' = Snapshot
  /\ UNCHANGED <<state, sector, score, highscore, enemies, glitches, nat_timer,
                 emit_row, emit_col, dt, keys, seed, frame, last, losses, shots>>
  /\ Audible /\ Sound({"over_on"})

\* the history of player shots across the firing block
ShotHistory ==
  shots' = IF Len(surges') > Len(surges)
           THEN [since |-> 0, gap |-> shots.since,
                 hero_since |-> 0, hero_gap |-> shots.hero_since]
           ELSE shots

StepFire ==
  /\ pc = "fire"
  /\ LET r == FireBlock(surges, hero, keys)
     IN surges' = r.surges /\ hero' = r.hero
  /\ OcHistory /\ ShotHistory
  /\ pc' = "emit" /\ pre' = Snapshot
  /\ UNCHANGED <<state, sector, score, highscore, enemies, glitches, nat_timer,
                 emit_row, emit_col, dt, keys, seed, frame, last, losses,
                 full_blasts>>
  /\ Audible /\ Sound({"fire"})

StepEmit ==
  /\ pc = "emit"
  /\ LET r == EmitBlock(surges, nat_timer, emit_row, emit_col, dt, TapeNow)
     IN /\ surges' = r.surges /\ nat_timer' = r.nat_timer
        /\ emit_row' = r.emit_row /\ emit_col' = r.emit_col
  /\ OcHistory
  /\ pc' = "enemies" /\ pre' = Snapshot
  /\ UNCHANGED <<state, sector, score, highscore, hero, enemies, glitches,
                 dt, keys, seed, frame, last, losses, shots,
                 full_blasts>>
  /\ Audible /\ Sound({"natural"})

StepEnemies ==
  /\ pc = "enemies"
  /\ LET r == EnemiesBlock(enemies, hero, dt, TapeNow)
     IN /\ enemies' = r.enemies
        /\ surges' = surges \o r.shots
        /\ glitches' = glitches \o r.glitches
  /\ OcHistory
  /\ pc' = "mitosis" /\ pre' = Snapshot
  /\ UNCHANGED <<state, sector, score, highscore, hero, nat_timer, emit_row,
                 emit_col, dt, keys, seed, frame, last, losses, shots,
                 full_blasts>>
  /\ Audible /\ Sound({"enemyfire"})

StepMitosis ==
  /\ pc = "mitosis"
  /\ enemies' = handle_enemy_mitosis(enemies, TapeNow)
  /\ pc' = "move" /\ pre' = Snapshot
  /\ UNCHANGED <<state, sector, score, highscore, hero, surges, glitches,
                 nat_timer, emit_row, emit_col, dt, keys, seed, frame, last,
                 history>>
  /\ Audible /\ Sound({"clone"})

StepMove ==
  /\ pc = "move"
  /\ glitches' = GlitchDecay(glitches, dt)
  /\ surges' = MoveBlock(surges, dt)
  /\ pc' = "cancels" /\ pre' = Snapshot
  /\ UNCHANGED <<state, sector, score, highscore, hero, enemies, nat_timer,
                 emit_row, emit_col, dt, keys, seed, frame, last, history>>
  /\ Audible /\ UNCHANGED sfx

StepCancels ==
  /\ pc = "cancels"
  /\ LET r == handle_surge_cancels(surges, hero)
     IN surges' = r.surges /\ hero' = r.hero
  /\ pc' = "hits" /\ pre' = Snapshot
  /\ UNCHANGED <<state, sector, score, highscore, enemies, glitches, nat_timer,
                 emit_row, emit_col, dt, keys, seed, frame, last, history>>
  /\ Audible /\ Sound({"cancel"})

\* the history of hp losses across a block that may hurt the hero
HurtHistory ==
  losses' = IF hero'.hp < hero.hp
            THEN [since |-> 0, gap |-> losses.since,
                  hero_since |-> 0, hero_gap |-> losses.hero_since]
            ELSE losses

StepHits ==
  /\ pc = "hits"
  /\ LET r == handle_surge_hits(surges, enemies, hero, score, TapeNow)
     IN /\ surges' = r.surges /\ enemies' = r.enemies
        /\ hero' = r.hero /\ score' = r.score
  /\ HurtHistory
  /\ pc' = "hazards" /\ pre' = Snapshot
  /\ UNCHANGED <<state, sector, highscore, glitches, nat_timer, emit_row,
                 emit_col, dt, keys, seed, frame, last, shots, oc_made,
                 full_blasts>>
  /\ Audible /\ Sound({"hit", "explode", "hurt"})

StepHazards ==
  /\ pc = "hazards"
  /\ hero' = HazardBlock(glitches, hero)
  /\ HurtHistory
  /\ pc' = "winlose" /\ pre' = Snapshot
  /\ UNCHANGED <<state, sector, score, highscore, enemies, surges, glitches,
                 nat_timer, emit_row, emit_col, dt, keys, seed, frame, last,
                 shots, oc_made,
                 full_blasts>>
  /\ Audible /\ Sound({"hurt"})

StepWinLose ==
  /\ pc = "winlose"
  /\ LET r == WinLose(state, hero, enemies, score, highscore)
     IN state' = r.state /\ highscore' = r.highscore
  /\ pc' = "frame" /\ last' = "update" /\ pre' = Snapshot
  /\ UNCHANGED <<sector, score, hero, enemies, surges, glitches, nat_timer,
                 emit_row, emit_col, dt, keys, seed, frame, history>>
  /\ Audible /\ Sound({"lose", "win"})

Update ==
  \/ StepHero \/ StepBlast \/ StepFire \/ StepEmit \/ StepEnemies
  \/ StepMitosis \/ StepMove \/ StepCancels \/ StepHits \/ StepHazards
  \/ StepWinLose

Next == Event \/ FramePaused \/ FrameIdle \/ Update

Spec == Init /\ [][Next]_vars


\* ------------------------------------------------- mid-game starting points
\* A game in progress in sector 1, between two frames.  The hero has lost
\* hp and charged the meter by cancels alone (which give no score), and was
\* last hurt a second or more ago, or half a second ago; no enemy has been
\* damaged; the next natural train is nearly due.  In a skirmish two enemy
\* surges come down the hero's wire and a glitch lies next to the hero.
Skirmish ==
  [surges |-> [i \in 1..2 |->
                 [EnemyShot(Vec(480, 250), Vec(0, 1), SURGE_SPEED_ENEMY)
                    EXCEPT !.ttl = SURGE_LEN - 40]],
   glitches |-> <<[pos |-> Vec(480, 280), a |-> GLITCH_ALPHA - 50]>>]

Calm == [surges |-> <<>>, glitches |-> <<>>]

InPlay ==
  /\ state = "play"
  /\ \E h \in {[hp |-> HERO_HP - 1, m |-> OC_MAX - 4], [hp |-> 1, m |-> OC_MAX]},
        i \in {0, HERO_IFRAMES \div 2} :
       /\ hero = [HeroNew(CENTER) EXCEPT !.hp = h.hp, !.oc_meter = h.m, !.ifr = i]
       /\ losses = [NoLosses EXCEPT !.since = HERO_IFRAMES - i,
                                    !.hero_since = HERO_IFRAMES - i]
  /\ \E field \in {Calm, Skirmish} :
       surges = field.surges /\ glitches = field.glitches

\* The game just after the pass that took the hero's last hp.
JustLost ==
  /\ state = "gameover"
  /\ hero = [HeroNew(CENTER) EXCEPT !.hp = 0, !.ifr = HERO_IFRAMES]
  /\ losses = [NoLosses EXCEPT !.since = 0, !.hero_since = 0]
  /\ surges = <<>> /\ glitches = <<>>

InitPlay ==
  /\ sector = 1 /\ score = 0 /\ highscore = 0
  /\ seed \in Tapes
  /\ enemies = BuildEnemies(SECTOR_START_ENEMIES[1], SECTOR_START_ENEMIES[2],
                            SECTOR_START_ENEMIES[3], seed)
  /\ InPlay \/ JustLost
  /\ shots = NoShots
  /\ nat_timer = 40
  /\ emit_row = SurgeEmitter("row") /\ emit_col = SurgeEmitter("col")
  /\ pc = "frame" /\ dt = 0 /\ keys = NoKeys /\ frame = 0 /\ last = "init"
  /\ pre = Snapshot /\ oc_made = 0 /\ full_blasts = 0
  /\ sfx = SFX(FALSE, 0)

SpecPlay == InitPlay /\ [][Next]_vars


\* A game whose sector has just been cleared, between two frames, for some
\* sector index: every sector index is reached by clearing the sectors
\* before it.  The score is one that hits and kills add up to.
ClearedSectors == {2, 11, 12, 13}
ClearedScore == 45 * 500 + 120 * 225

InitCleared ==
  /\ state = "sectorclear" /\ sector \in ClearedSectors
  /\ score = ClearedScore /\ highscore = ClearedScore
  /\ seed \in Tapes
  /\ hero = HeroNew(CENTER)
  /\ enemies = <<>> /\ surges = <<>> /\ glitches = <<>>
  /\ nat_timer = 40
  /\ emit_row = SurgeEmitter("row") /\ emit_col = SurgeEmitter("col")
  /\ pc = "frame" /\ dt = 0 /\ keys = NoKeys /\ frame = 0 /\ last = "init"
  /\ losses = NoLosses /\ shots = NoShots
  /\ pre = Snapshot /\ oc_made = 0 /\ full_blasts = 0
  /\ sfx = SFX(FALSE, 0)

SpecSectors == InitCleared /\ [][Next]_vars


\* A frame in play that has reached the surge-vs-surge block with up to
\* MaxSurges live surges on the wire y = 240, each at one of two spots 14 px
\* apart: two plain surges at one spot are in cancel range, at different
\* spots they are not, an overclock surge reaches both.
MaxSurges == 4

SurgeSpots == {Vec(480, 240), Vec(494, 240)}

SurgesOnWire ==
  {Surge(p, Vec(1, 0), SURGE_SPEED_PLAYER, "player", SURGE_R, SURGE_LEN - 4, 1, FALSE)
     : p \in SurgeSpots}
  \cup {Surge(p, Vec(1, 0), OC_SURGE_SPEED, "oc", OC_SURGE_R, OC_SURGE_TTL - 2,
              OC_SURGE_DMG, TRUE) : p \in SurgeSpots}
  \cup {EnemyShot(p, Vec(-1, 0), SURGE_SPEED_ENEMY) : p \in SurgeSpots}
  \cup {Surge(p, Vec(-1, 0), SURGE_SPEED_NATURAL, "natural", SURGE_R, SURGE_LEN - 2,
              1, FALSE) : p \in SurgeSpots}

SurgeLists == UNION {[1..n -> SurgesOnWire] : n \in 0..MaxSurges}

InitCancels ==
  /\ state = "play" /\ sector = 1 /\ score = 0 /\ highscore = 0
  /\ seed = [i \in 1..TapeLen |-> 0]
  /\ \E m \in {0, OC_MAX - 4, OC_MAX} :
       hero = [HeroNew(CENTER) EXCEPT !.oc_meter = m]
  /\ enemies = BuildEnemies(SECTOR_START_ENEMIES[1], SECTOR_START_ENEMIES[2],
                            SECTOR_START_ENEMIES[3], seed)
  /\ surges \in SurgeLists /\ glitches = <<>>
  /\ nat_timer = 40
  /\ emit_row = SurgeEmitter("row") /\ emit_col = SurgeEmitter("col")
  /\ pc = "cancels" /\ dt = 2 /\ keys = NoKeys /\ frame = 1 /\ last = "init"
  /\ losses = NoLosses /\ shots = NoShots
  /\ pre = Snapshot /\ oc_made = 0 /\ full_blasts = 0
  /\ sfx = SFX(FALSE, 0)

RestOfFrame == StepCancels \/ StepHits \/ StepHazards \/ StepWinLose

SpecCancels == InitCancels /\ [][RestOfFrame]_vars


\* A frame in play that has reached the surge-hit block.  One enemy, the
\* target, stands at the strike spot, a crossing of wires 30 px above the
\* hero; it is any kind and tier of enemy, undamaged or down to its last hp.
\* A Bug may stand 4 px further along the wire, within reach of the same
\* surges.  The hero is fresh, or late in a fight: still invulnerable from
\* a loss and with the meter one contact short of full.  A natural surge may
\* be passing over the strike spot, and a glitch may lie next to the hero.
\* A crowd of small Viruses stands along the wire y = 48, out of every
\* surge's reach; a crowd of 18 next to the target is the field that sector
\* 14 is built with.  Up to MaxHitSurges surges are live: player and
\* overclock surges at the strike spot, enemy surges at the hero.
MaxHitSurges == 3

StrikeSpot == Vec(480, 240)
ZeroTape == [i \in 1..TapeLen |-> 0]

HitTargets ==
  {[Virus(StrikeSpot, 2, ZeroTape, 0) EXCEPT !.hp = hp] : hp \in {1, 3}}
  \cup {[Virus(StrikeSpot, 1, ZeroTape, 0) EXCEPT !.hp = hp] : hp \in {1, 2}}
  \cup {Virus(StrikeSpot, 0, ZeroTape, 0)}
  \cup {[Bug(StrikeSpot, ZeroTape, 0) EXCEPT !.hp = hp] : hp \in {1, 2}}
  \cup {[Worm(StrikeSpot, ZeroTape, 0) EXCEPT !.hp = hp] : hp \in {1, 4}}

\* a second enemy within reach of the surges at the strike spot
Escort == Bug(Vec(StrikeSpot.x + 4, StrikeSpot.y), ZeroTape, 0)

Crowd(n) == [i \in 1..n |-> Virus(Vec(GRID * i, GRID), 0, ZeroTape, 0)]
CrowdSizes == {0, 16, 17, 18}

SurgesAtStrike ==
  {Surge(StrikeSpot, Vec(1, 0), SURGE_SPEED_PLAYER, "player", SURGE_R,
         SURGE_LEN - 4, 1, FALSE),
   Surge(StrikeSpot, Vec(1, 0), OC_SURGE_SPEED, "oc", OC_SURGE_R,
         OC_SURGE_TTL - 2, OC_SURGE_DMG, TRUE),
   EnemyShot(CENTER, Vec(0, 1), SURGE_SPEED_ENEMY),
   Surge(StrikeSpot, Vec(1, 0), SURGE_SPEED_NATURAL, "natural", SURGE_R,
         SURGE_LEN - 2, 1, FALSE)}

HitSurgeLists == UNION {[1..n -> SurgesAtStrike] : n \in 0..MaxHitSurges}

InitHits ==
  /\ state = "play" /\ sector = 1 /\ score = 300 /\ highscore \in {0, 1000}
  /\ seed = ZeroTape
  /\ \E hp \in {1, HERO_HP}, late \in BOOLEAN :
       hero = [HeroNew(CENTER) EXCEPT
                 !.hp = hp,
                 !.ifr = IF late THEN HERO_IFRAMES - 30 ELSE 0,
                 !.oc_meter = IF late THEN OC_MAX - 4 ELSE 0]
  /\ \E t \in HitTargets, n \in CrowdSizes, esc \in {<<>>, <<Escort>>} :
       /\ 1 + Len(esc) + n <= MAX_ENEMIES_ON_FIELD + 1
       /\ enemies = <<t>> \o esc \o Crowd(n)
  /\ surges \in HitSurgeLists
  /\ glitches \in {<<>>, Skirmish.glitches}
  /\ nat_timer = 40
  /\ emit_row = SurgeEmitter("row") /\ emit_col = SurgeEmitter("col")
  /\ pc = "hits" /\ dt = 2 /\ keys = NoKeys /\ frame = 1 /\ last = "init"
  /\ losses = NoLosses /\ shots = NoShots
  /\ pre = Snapshot /\ oc_made = 0 /\ full_blasts = 0
  /\ sfx = SFX(FALSE, 0)

HitsOnward == StepHits \/ StepHazards \/ StepWinLose

SpecHits == InitHits /\ [][HitsOnward]_vars


\* The session from every kind of starting point at once: the menu after
\* construction; a game just lost; a sector just cleared; and a frame in
\* play about to run the hit block in which a player surge meets the last
\* enemy, a Bug down to its last hp, while an enemy surge may meet the hero;
\* the hero has fired in this pass, or has not fired for a while.
LastHit ==
  /\ state = "play" /\ sector \in {1, 3} /\ score = 300
  /\ highscore \in {0, ClearedScore}
  /\ seed = ZeroTape
  /\ enemies = <<[Bug(StrikeSpot, ZeroTape, 0) EXCEPT !.hp = 1]>>
  /\ \E hp \in {1, HERO_HP}, fired \in BOOLEAN, ss \in HitSurgeLists :
       /\ Len(ss) <= 2
       /\ Cardinality({i \in DOMAIN ss : ss[i].owner = "player"}) = 1
       /\ \A i \in DOMAIN ss : ss[i].owner \notin {"oc", "natural"}
       /\ hero = [HeroNew(CENTER) EXCEPT
                    !.hp = hp, !.cd = IF fired THEN HERO_SHOT_CD ELSE 0]
       /\ keys = [NoKeys EXCEPT !.fire = fired]
       /\ shots = IF fired
                  THEN [NoShots EXCEPT !.since = 0, !.hero_since = 0]
                  ELSE NoShots
       /\ surges = IF fired
                   THEN Append(ss, SurgeMoved(ShootSurge(HeroNew(CENTER), keys.aim), 2))
                   ELSE ss
  /\ glitches = <<>>
  /\ nat_timer = 40
  /\ emit_row = SurgeEmitter("row") /\ emit_col = SurgeEmitter("col")
  /\ pc = "hits" /\ dt = 2 /\ frame = 1 /\ last = "init"
  /\ losses = NoLosses
  /\ pre = Snapshot /\ oc_made = 0 /\ full_blasts = 0
  /\ sfx = SFX(FALSE, 0)

InitSession ==
  \/ Init /\ sfx = SFX(FALSE, 0) /\ seed = ZeroTape
  \/ InitPlay /\ state = "gameover" /\ seed = ZeroTape
  \/ InitCleared /\ sector = 2 /\ seed = ZeroTape
  \/ LastHit

SpecSession == InitSession /\ [][Next]_vars


\* A game in play between two frames, in sector 1 with nobody hurt yet, at
\* some point of the natural trains' cycle: both emitters idle with a train
\* due soon or late, or one emitter in the middle or at the last packet of
\* its train.
Running(em, count, fire_t) ==
  [em EXCEPT !.active = TRUE, !.count = count, !.fire_t = fire_t,
             !.x_or_y = 5 * GRID]

TrainPhases ==
  {[row |-> SurgeEmitter("row"), col |-> SurgeEmitter("col"), timer |-> t]
     : t \in {40, NAT_SURGE_EVERY[1]}}
  \cup {[row |-> Running(SurgeEmitter("row"), 3, EMIT_SPACING - 2),
         col |-> SurgeEmitter("col"), timer |-> NAT_SURGE_EVERY[1]],
        [row |-> SurgeEmitter("row"),
         col |-> Running(SurgeEmitter("col"), 1, 0),
         timer |-> NAT_SURGE_EVERY[2]]}

\* the generators whose draws all take the same level
LevelTapes == {[i \in 1..TapeLen |-> v] : v \in 0..RandMax}

InitTrains ==
  /\ state = "play" /\ sector = 1 /\ score = 0 /\ highscore = 0
  /\ seed \in LevelTapes
  /\ hero = HeroNew(CENTER)
  /\ enemies = BuildEnemies(SECTOR_START_ENEMIES[1], SECTOR_START_ENEMIES[2],
                            SECTOR_START_ENEMIES[3], seed)
  /\ surges = <<>> /\ glitches = <<>>
  /\ \E ph \in TrainPhases :
       nat_timer = ph.timer /\ emit_row = ph.row /\ emit_col = ph.col
  /\ pc = "frame" /\ dt = 0 /\ keys = NoKeys /\ frame = 0 /\ last = "init"
  /\ losses = NoLosses /\ shots = NoShots
  /\ pre = Snapshot /\ oc_made = 0 /\ full_blasts = 0
  /\ sfx = SFX(FALSE, 0)

SpecTrains == InitTrains /\ [][Update]_vars


\* A frame in play that has reached the firing block with the fire button
\* down, the hero ready to shoot and facing any way, and the mouse at any
\* offset of up to MaxAim px per axis from the hero (offset (0, 0): the hero
\* shoots the way it faces).  A Bug that is about to shoot comes down the
\* hero's wire: it steps onto the hero's position or is still above it.
MaxAim == 3

AimVectors == {Vec(x, y) : x \in (-MaxAim)..MaxAim, y \in (-MaxAim)..MaxAim}

InitAim ==
  /\ state = "play" /\ sector = 1 /\ score = 0 /\ highscore = 0
  /\ seed = ZeroTape
  /\ \E d \in DOMAIN DirsAll : hero = [HeroNew(CENTER) EXCEPT !.face = DirsAll[d]]
  /\ \E p \in {Vec(CENTER.x, CENTER.y - Travel(BUG_SPEED, 2)), StrikeSpot} :
       enemies = <<[Bug(p, ZeroTape, 0) EXCEPT !.shoot_t = 1, !.dir = Vec(0, 1)]>>
  /\ surges = <<>> /\ glitches = <<>>
  /\ nat_timer = 40
  /\ emit_row = SurgeEmitter("row") /\ emit_col = SurgeEmitter("col")
  /\ pc = "fire" /\ dt = 2 /\ frame = 1 /\ last = "init"
  /\ \E v \in AimVectors : keys = [NoKeys EXCEPT !.fire = TRUE, !.aim = v]
  /\ losses = NoLosses /\ shots = NoShots
  /\ pre = Snapshot /\ oc_made = 0 /\ full_blasts = 0
  /\ sfx = SFX(FALSE, 0)

FireOnward ==
  \/ StepFire \/ StepEmit \/ StepEnemies \/ StepMitosis \/ StepMove
  \/ StepCancels \/ StepHits \/ StepHazards \/ StepWinLose

SpecAim == InitAim /\ [][FireOnward]_vars


\* The menu after construction with every audio sink SFX.__init__ can leave
\* behind: no mixer, a mixer and all sounds, or a mixer and a sound that
\* could not be made.
InitAudio == Init /\ seed = ZeroTape

SpecAudio == InitAudio /\ [][Next]_vars


\* A frame in play that has reached the surge-vs-surge block with an
\* overclock surge among up to MaxHitSurges surges on the wire y = 240, and
\* two enemies in its reach at the strike spot: a Worm that outlives it or a
\* Bug that does not, and a second Bug.  The overclock surges are fresh, or
\* worn down to their last 4 cs.  The frame ends and the run loop goes on.
InitPierce ==
  /\ state = "play" /\ sector = 1 /\ score = 0 /\ highscore = 0
  /\ seed = ZeroTape
  /\ hero = HeroNew(CENTER)
  /\ \E t \in {Worm(StrikeSpot, ZeroTape, 0), Bug(StrikeSpot, ZeroTape, 0)} :
       enemies = <<t, Escort>>
  /\ \E ss \in SurgeLists, worn \in BOOLEAN :
       /\ Len(ss) <= MaxHitSurges
       /\ \E i \in DOMAIN ss : ss[i].owner = "oc"
       /\ surges = [i \in DOMAIN ss |->
                      IF worn /\ ss[i].owner = "oc"
                      THEN [ss[i] EXCEPT !.ttl = 4] ELSE ss[i]]
  /\ glitches = <<>>
  /\ nat_timer = 40
  /\ emit_row = SurgeEmitter("row") /\ emit_col = SurgeEmitter("col")
  /\ pc = "cancels" /\ dt = 2 /\ keys = NoKeys /\ frame = 1 /\ last = "init"
  /\ losses = NoLosses /\ shots = NoShots
  /\ pre = Snapshot /\ oc_made = 0 /\ full_blasts = 0
  /\ sfx = SFX(FALSE, 0)

SpecPierce == InitPierce /\ [][Next]_vars


\* A game in play that nobody touches: no key is down, the frames all take
\* the same time, and the run loop calls update every iteration for as long
\* as the state is play.  Three friendly surges are on their way from the
\* crossing below the hero: a fresh player surge, a player surge with 0.3 s
\* left, and an overclock surge.  The run is followed for FlowTime cs of play
\* and for FlowFrames frames at least, longer than any surge's time-to-live,
\* and until no train is running.
FlowTime == 200
FlowFrames == 12

FlowSurges ==
  <<Surge(Vec(480, 288), Vec(1, 0), SURGE_SPEED_PLAYER, "player", SURGE_R,
          SURGE_LEN, 1, FALSE),
    Surge(Vec(480, 288), Vec(-1, 0), SURGE_SPEED_PLAYER, "player", SURGE_R,
          30, 1, FALSE),
    Surge(Vec(480, 288), Vec(0, -1), OC_SURGE_SPEED, "oc", OC_SURGE_R,
          OC_SURGE_TTL - 2, OC_SURGE_DMG, TRUE)>>

InitFlow ==
  /\ state = "play" /\ sector = 1 /\ score = 0 /\ highscore = 0
  /\ seed \in LevelTapes
  /\ hero = HeroNew(CENTER)
  /\ enemies = BuildEnemies(SECTOR_START_ENEMIES[1], SECTOR_START_ENEMIES[2],
                            SECTOR_START_ENEMIES[3], seed)
  /\ surges = FlowSurges /\ glitches = <<>>
  /\ nat_timer = 40
  /\ emit_row = SurgeEmitter("row") /\ emit_col = SurgeEmitter("col")
  /\ pc = "frame" /\ dt = 0 /\ keys = NoKeys /\ frame = 0 /\ last = "init"
  /\ losses = NoLosses /\ shots = NoShots
  /\ pre = Snapshot /\ oc_made = 0 /\ full_blasts = 0
  /\ sfx = SFX(FALSE, 0)

FlowLasts ==
  \/ frame * dt < FlowTime \/ frame < FlowFrames
  \/ emit_row.active \/ emit_col.active

\* the start of a frame in play with no key down
FlowFrame ==
  /\ pc = "frame" /\ state = "play" /\ FlowLasts
  /\ \E t \in Ticks :
       /\ frame = 0 \/ t = dt
       /\ dt' = t
       /\ hero' = HeroUpdate(hero, t, NoKeys)
       /\ losses' = [losses EXCEPT
                       !.since = Min2(HERO_IFRAMES, losses.since + t),
                       !.hero_since = Min2(HERO_IFRAMES, losses.hero_since + t)]
       /\ shots' = [shots EXCEPT
                      !.since = Min2(HERO_SHOT_CD, shots.since + t),
                      !.hero_since = Min2(HERO_SHOT_CD, shots.hero_since + t)]
  /\ keys' = NoKeys
  /\ frame' = frame + 1
  /\ pc' = "blast" /\ pre' = Snapshot
  /\ UNCHANGED <<state, sector, score, highscore, enemies, surges, glitches,
                 nat_timer, emit_row, emit_col, seed, last, oc_made, full_blasts>>
  /\ Audible /\ UNCHANGED sfx

FlowNext ==
  \/ FlowFrame \/ StepBlast \/ StepFire \/ StepEmit \/ StepEnemies
  \/ StepMitosis \/ StepMove \/ StepCancels \/ StepHits \/ StepHazards
  \/ StepWinLose

\* Game.run calls update in every iteration and update runs its blocks in
\* turn, so a block that can run does run: while a pass is under way, or the
\* state is play between two frames, the position in update moves on.  (In
\* this specification every step of FlowNext changes pc, and FlowNext is
\* enabled exactly where FlowGoes is.)
FlowGoes ==
  /\ pc # "frame" \/ (state = "play" /\ FlowLasts)
  /\ pc' \in {"frame", "blast", "fire", "emit", "enemies", "mitosis", "move",
               "cancels", "hits", "hazards", "winlose"} \ {pc}

SpecFlow == InitFlow /\ [][FlowNext]_vars /\ WF_pc(FlowGoes)


\* ================================================================ properties
\* pre is the game before the block that ran last, so "pc = b" reads "the
\* block before b has just run on pre".

Range(s) == {s[i] : i \in DOMAIN s}
Occurs(s, v) == Cardinality({i \in DOMAIN s : s[i] = v})
Owned(s, owners) == Cardinality({i \in DOMAIN s : s[i].owner \in owners})

RECURSIVE IsSubSeq(_, _)
IsSubSeq(a, b) ==
  IF a = <<>> THEN TRUE
  ELSE IF b = <<>> THEN FALSE
  ELSE IF Head(a) = Head(b) THEN IsSubSeq(Tail(a), Tail(b))
  ELSE IsSubSeq(a, Tail(b))

Friendly(v) == v.owner \in {"player", "oc"}
Hostile(v) == v.owner \in {"enemy", "natural"}
Opposed(v, w) == (Friendly(v) /\ Hostile(w)) \/ (Hostile(v) /\ Friendly(w))
InCancelRange(v, w) ==
  (v.pos.x - w.pos.x) * (v.pos.x - w.pos.x) + (v.pos.y - w.pos.y) * (v.pos.y - w.pos.y)
    <= (v.r + w.r + 1) * (v.r + w.r + 1)

\* how many copies of v the block that ran last removed from the surge list
Removed(v) == Occurs(pre.surges, v) - Occurs(surges, v)
PlayersRemoved == Owned(pre.surges, {"player"}) - Owned(surges, {"player"})
HostilesRemoved ==
  Owned(pre.surges, {"enemy", "natural"}) - Owned(surges, {"enemy", "natural"})
SurgesRemoved == Len(pre.surges) - Len(surges)

\* C1: after every update pass the number of live enemies is at most
\* MAX_ENEMIES_ON_FIELD, at any sector index.
C1_PopulationCapped ==
  (pc = "frame" /\ last = "update") => Len(enemies) <= MAX_ENEMIES_ON_FIELD

\* C2: in one handle_surge_cancels pass every surge takes part in at most one
\* resolved pairing: with no overclock surge about, the hostile surges
\* removed are as many as the player surges removed, and the meter got one
\* OC_FILL_PER_CANCEL award per player surge removed.
C2_OnePairingPerSurge ==
  (pc = "hits" /\ Owned(pre.surges, {"oc"}) = 0) =>
    /\ HostilesRemoved = PlayersRemoved
    /\ hero.oc_meter = Min2(OC_MAX, pre.hero.oc_meter + OC_FILL_PER_CANCEL * PlayersRemoved)

\* C3: a handle_surge_cancels pass only removes surges; it removes no
\* overclock surge; it removes a surge only if a surge of the other faction
\* was within r1 + r2 + 1 of it; it leaves no friendly/hostile pair within
\* that range; a hostile surge removed with no overclock surge in range went
\* together with a player surge in range, and a player surge removed went
\* together with a hostile surge in range.
C3_PairResolution ==
  pc = "hits" =>
    /\ IsSubSeq(surges, pre.surges)
    /\ \A v \in Range(pre.surges) :
         /\ v.owner = "oc" => Removed(v) = 0
         /\ Removed(v) > 0 =>
              \E w \in Range(pre.surges) : Opposed(v, w) /\ InCancelRange(v, w)
         /\ (Hostile(v) /\ Removed(v) > 0
               /\ ~\E w \in Range(pre.surges) : w.owner = "oc" /\ InCancelRange(v, w))
            => \E w \in Range(pre.surges) :
                 w.owner = "player" /\ InCancelRange(v, w) /\ Removed(w) > 0
         /\ (v.owner = "player" /\ Removed(v) > 0)
            => \E w \in Range(pre.surges) :
                 Hostile(w) /\ InCancelRange(v, w) /\ Removed(w) > 0
    /\ \A v, w \in Range(surges) : ~(Opposed(v, w) /\ InCancelRange(v, w))

\* a pass that removed a player surge with its hostile surge and in which an
\* overclock surge outlived a hostile surge only it could reach, with a
\* surge of its own faction in range
C3_Witness ==
  /\ pc = "hits"
  /\ \E v, w \in Range(pre.surges) :
       /\ v.owner = "player" /\ Hostile(w) /\ InCancelRange(v, w)
       /\ Removed(v) > 0 /\ Removed(w) > 0
  /\ \E o \in Range(surges), w \in Range(pre.surges) :
       /\ o.owner = "oc" /\ Hostile(w) /\ InCancelRange(o, w) /\ Removed(w) > 0
       /\ ~\E v \in Range(pre.surges) : v.owner = "player" /\ InCancelRange(v, w)
  /\ \E v \in Range(surges), w \in Range(pre.surges) :
       v # w /\ ~Opposed(v, w) /\ InCancelRange(v, w)

\* C4: a handle_surge_cancels pass that removes no player surge (its cancels
\* are overclock ones) leaves oc_meter unchanged; one that removes player
\* surges sets it to min(OC_MAX, oc_meter + k * OC_FILL_PER_CANCEL), k the
\* number of cancels with a player surge in them: at least one per player
\* surge removed, and each takes one more surge off the list.
C4_CancelAwards ==
  pc = "hits" =>
    /\ PlayersRemoved = 0 => hero.oc_meter = pre.hero.oc_meter
    /\ PlayersRemoved > 0 =>
         \E k \in PlayersRemoved..(SurgesRemoved - 1) :
           hero.oc_meter = Min2(OC_MAX, pre.hero.oc_meter + OC_FILL_PER_CANCEL * k)
    /\ [hero EXCEPT !.oc_meter = 0] = [pre.hero EXCEPT !.oc_meter = 0]

\* a pass with one player cancel and one overclock cancel: one award
C4_Witness ==
  /\ pc = "hits"
  /\ PlayersRemoved = 1 /\ HostilesRemoved = 2 /\ Owned(surges, {"oc"}) > 0
  /\ hero.oc_meter = pre.hero.oc_meter + OC_FILL_PER_CANCEL

\* C5: the meter stays within 0..OC_MAX in every reachable state.
C5_MeterBounded == 0 <= hero.oc_meter /\ hero.oc_meter <= OC_MAX

\* a player surge hit that would have taken the meter past OC_MAX
C5_Witness ==
  /\ pc = "hazards" /\ score > pre.score
  /\ pre.hero.oc_meter > OC_MAX - OC_FILL_PER_KILL /\ pre.hero.oc_meter < OC_MAX
  /\ hero.oc_meter = OC_MAX

\* the damage attempts of the block that ran last: the hostile surges that
\* touched the hero in handle_surge_hits, the glitches in the hazards block
InTouch(p, q, d) ==
  (p.x - q.x) * (p.x - q.x) + (p.y - q.y) * (p.y - q.y) <= d * d
SurgeAttempts ==
  Cardinality({i \in DOMAIN pre.surges :
                 /\ Hostile(pre.surges[i])
                 /\ InTouch(pre.hero.pos, pre.surges[i].pos, HERO_R + pre.surges[i].r)})
GlitchAttempts ==
  Cardinality({i \in DOMAIN pre.glitches :
                 InTouch(pre.hero.pos, pre.glitches[i].pos, HERO_R + GLITCH_R)})

\* C6: hp stays within 0..HERO_HP in every reachable state, however many
\* hostile surges and glitches touch the hero.
C6_HealthBounded == 0 <= hero.hp /\ hero.hp <= HERO_HP

\* the last hp lost in a pass in which two hostile surges touched the hero
C6_Witness ==
  /\ pc = "hazards" /\ SurgeAttempts >= 2
  /\ pre.hero.hp = 1 /\ pre.hero.ifr = 0 /\ hero.hp = 0

\* what n damage attempts of one block do to hp and the timer
AttemptsOutcome(n) ==
  IF n = 0 \/ pre.hero.ifr > 0
  THEN hero.hp = pre.hero.hp /\ hero.ifr = pre.hero.ifr
  ELSE hero.hp = pre.hero.hp - 1 /\ hero.ifr = HERO_IFRAMES

\* C7: damage attempts with the invulnerability timer > 0 leave hp and the
\* timer unchanged; attempts with timer 0 lower hp by exactly 1 and set the
\* timer to HERO_IFRAMES; hp drops at most once per update pass (no two
\* losses without play time between them), and two successive hp losses of
\* the same Hero object are at least HERO_IFRAMES of play time apart.
C7_Iframes ==
  /\ pc = "hazards" => AttemptsOutcome(SurgeAttempts)
  /\ pc = "winlose" => AttemptsOutcome(GlitchAttempts)
  /\ losses.gap > 0
  /\ losses.hero_gap >= HERO_IFRAMES

\* C7 as stated: the same, with any two successive hp losses at least
\* HERO_IFRAMES of play time apart.
C7_AnyLossesApart ==
  /\ pc = "hazards" => AttemptsOutcome(SurgeAttempts)
  /\ pc = "winlose" => AttemptsOutcome(GlitchAttempts)
  /\ losses.gap > 0
  /\ losses.gap >= HERO_IFRAMES

\* a glitch blocked by the timer that a surge hit of the same pass started,
\* on a hero whose previous loss was HERO_IFRAMES of play time before
C7_Witness ==
  /\ pc = "winlose" /\ GlitchAttempts > 0
  /\ hero.ifr = HERO_IFRAMES /\ hero.hp = pre.hero.hp
  /\ losses.since = 0 /\ losses.hero_gap = HERO_IFRAMES
  /\ hero.hp < HERO_HP - 1

\* C8: the blast block with blast asserted and a full meter appends exactly
\* four piercing overclock surges at the hero, one per cardinal direction,
\* and empties the meter; otherwise it changes neither the surges nor the
\* hero.  The overclock surges ever created are four per blast on a full
\* meter.
C8_Blast ==
  /\ pc = "fire" =>
       IF keys.blast /\ pre.hero.oc_meter = OC_MAX
       THEN /\ Len(surges) = Len(pre.surges) + 4
            /\ SubSeq(surges, 1, Len(pre.surges)) = pre.surges
            /\ \A k \in (Len(pre.surges) + 1)..Len(surges) :
                 /\ surges[k].owner = "oc" /\ surges[k].pierce
                 /\ surges[k].pos = pre.hero.pos
            /\ {surges[k].dir : k \in (Len(pre.surges) + 1)..Len(surges)}
                 = {Vec(1, 0), Vec(-1, 0), Vec(0, 1), Vec(0, -1)}
            /\ hero = [pre.hero EXCEPT !.oc_meter = 0]
       ELSE surges = pre.surges /\ hero = pre.hero
  /\ oc_made = 4 * full_blasts

\* a blast on a full meter, with hostile surges already on the list
C8_Witness ==
  /\ pc = "fire" /\ keys.blast /\ pre.hero.oc_meter = OC_MAX
  /\ pre.surges # <<>> /\ Owned(surges, {"oc"}) = 4 /\ oc_made = 4

\* the enemies the mitosis pass changed, and the pairs it could pick
Parents == {i \in DOMAIN pre.enemies : enemies[i] # pre.enemies[i]}
Children == (Len(pre.enemies) + 1)..Len(enemies)
CanPair(i, j) ==
  /\ i # j
  /\ pre.enemies[i].kind = pre.enemies[j].kind
  /\ pre.enemies[i].rep_cd = 0 /\ pre.enemies[j].rep_cd = 0
  /\ InTouch(pre.enemies[i].pos, pre.enemies[j].pos,
             pre.enemies[i].r + pre.enemies[j].r)
Kinds == {"Virus", "Bug", "Worm"}

\* C9: a mitosis pass changes an enemy only by setting the cooldown of one
\* whose cooldown was 0 and that overlapped another such enemy of its type
\* (a parent); it appends one child per two parents of each type, each child
\* with a positive cooldown, of its parents' type and between them; and
\* below the cap it leaves no overlapping same-type pair with both cooldowns
\* still 0.
C9_Mitosis ==
  pc = "move" =>
    /\ Len(enemies) >= Len(pre.enemies)
    /\ \A i \in DOMAIN pre.enemies :
         \/ enemies[i] = pre.enemies[i]
         \/ /\ pre.enemies[i].rep_cd = 0
            /\ enemies[i] = [pre.enemies[i] EXCEPT !.rep_cd = REP_CD]
            /\ \E j \in Parents : CanPair(i, j)
    /\ \A K \in Kinds :
         2 * Cardinality({k \in Children : enemies[k].kind = K})
           = Cardinality({i \in Parents : pre.enemies[i].kind = K})
    /\ \A k \in Children :
         /\ enemies[k].rep_cd > 0
         /\ \E i, j \in Parents :
              /\ CanPair(i, j)
              /\ enemies[k].kind = pre.enemies[i].kind
              /\ enemies[k].tier = pre.enemies[i].tier
              /\ InTouch(enemies[k].pos,
                         Vec((pre.enemies[i].pos.x + pre.enemies[j].pos.x) \div 2,
                             (pre.enemies[i].pos.y + pre.enemies[j].pos.y) \div 2), 9)
    /\ Len(enemies) < MAX_ENEMIES_ON_FIELD =>
         \A i, j \in DOMAIN pre.enemies :
           CanPair(i, j) => i \in Parents \/ j \in Parents

\* a pass below the cap that spawned a child and left out an enemy that
\* overlapped a parent of its type with cooldown 0
C9_Witness ==
  /\ pc = "move" /\ Len(enemies) < MAX_ENEMIES_ON_FIELD /\ Children # {}
  /\ \E i \in Parents, j \in DOMAIN pre.enemies : j \notin Parents /\ CanPair(i, j)

\* C10: a mitosis pass on a population within the cap ends within the cap,
\* and on a population at or above the cap changes nothing.
C10_MitosisCap ==
  pc = "move" =>
    /\ Len(pre.enemies) <= MAX_ENEMIES_ON_FIELD => Len(enemies) <= MAX_ENEMIES_ON_FIELD
    /\ Len(pre.enemies) >= MAX_ENEMIES_ON_FIELD => enemies = pre.enemies

\* a pass that filled the field to the cap and left a pair that could
\* otherwise have spawned
C10_Witness ==
  /\ pc = "move" /\ Children # {} /\ Len(enemies) = MAX_ENEMIES_ON_FIELD
  /\ \E i, j \in DOMAIN pre.enemies :
       CanPair(i, j) /\ i \notin Parents /\ j \notin Parents

\* ---- the hit block (pc = "hazards": handle_surge_hits has just run on pre)
\* an enemy of the list that was there before the block, possibly damaged
Survives(e) ==
  \E p \in Range(pre.enemies) : e.hp <= p.hp /\ e = [p EXCEPT !.hp = e.hp]
Newcomers == {i \in DOMAIN enemies : ~Survives(enemies[i])}
VirusesOf(en, idx, t) ==
  Cardinality({i \in idx : en[i].kind = "Virus" /\ en[i].tier = t})
\* Viruses of tier t that the block removed, children of tier t it inserted
Died(t) ==
  VirusesOf(pre.enemies, DOMAIN pre.enemies, t)
    - VirusesOf(enemies, (DOMAIN enemies) \ Newcomers, t)
Born(t) == VirusesOf(enemies, Newcomers, t)
Gone == Len(pre.enemies) - (Len(enemies) - Cardinality(Newcomers))

\* C11: Virus.on_death returns no children for a tier-0 Virus and exactly
\* two Viruses of tier (tier - 1) for a Virus of tier 1 or 2, whatever the
\* random draws; and a hit block with one friendly surge inserts only such
\* children: Viruses of tier t - 1, at most two per dead Virus of tier t >= 1
\* (exactly two when one enemy died and the cap was not reached), so a dead
\* Bug, Worm or tier-0 Virus leaves no death-spawn.
C11_DeathSpawns ==
  /\ \A e \in Range(enemies) \cup Range(pre.enemies), n \in 0..TapeLen :
       e.kind = "Virus" =>
         LET c == on_death(e, TapeNow, n)
         IN IF e.tier = 0 THEN c = <<>>
            ELSE /\ Len(c) = 2
                 /\ \A i \in 1..2 : c[i].kind = "Virus" /\ c[i].tier = e.tier - 1
  /\ (pc = "hazards" /\ Owned(pre.surges, {"player", "oc"}) = 1) =>
       /\ \A i \in Newcomers :
            enemies[i].kind = "Virus" /\ enemies[i].tier \in {0, 1}
       /\ \A t \in {1, 2} : Born(t - 1) <= 2 * Died(t)
       /\ (Gone = 1 /\ Len(enemies) < MAX_ENEMIES_ON_FIELD) =>
            \A t \in {1, 2} : Born(t - 1) = 2 * Died(t)

\* a tier-2 Virus died and left its two tier-1 children
C11_Witness ==
  /\ pc = "hazards" /\ Owned(pre.surges, {"player", "oc"}) = 1
  /\ Died(2) = 1 /\ Born(1) = 2 /\ Born(0) = 0

\* a Bug or a Worm died and left nothing
C11_WitnessNoSpawn ==
  /\ pc = "hazards" /\ Owned(pre.surges, {"player", "oc"}) = 1
  /\ Gone = 1 /\ pre.enemies[1].kind \in {"Bug", "Worm"}
  /\ Len(enemies) = Len(pre.enemies) - 1 /\ Newcomers = {}

\* the surge that handle_surge_hits treated first among the friendly ones,
\* and the enemy it met first
FirstFriend(k) ==
  /\ k \in DOMAIN pre.surges /\ Friendly(pre.surges[k])
  /\ \A m \in 1..(k - 1) : ~Friendly(pre.surges[m])
Reached(e, s) ==
  (e.pos.x - s.pos.x) * (e.pos.x - s.pos.x) + (e.pos.y - s.pos.y) * (e.pos.y - s.pos.y)
    <= (e.r + s.r) * (e.r + s.r)
FirstReached(j, s) ==
  /\ j \in DOMAIN pre.enemies /\ Reached(pre.enemies[j], s)
  /\ \A i \in 1..(j - 1) : ~Reached(pre.enemies[i], s)
Litter(e) == IF e.kind = "Virus" /\ e.tier > 0 THEN 2 ELSE 0

\* C12: when a non-piercing player surge hits an enemy whose hp drops to 0
\* or below, then after the hit block the enemy is no longer in the enemy
\* list and the surge is no longer in the surge list; and if the enemy was a
\* Virus and q enemies were left after its removal, exactly
\* min(number of its children, max(0, MAX_ENEMIES_ON_FIELD - q)) children
\* have been inserted (counted when no other friendly surge ran in the block).
C12_KillByPlayerSurge ==
  pc = "hazards" =>
    \A k \in DOMAIN pre.surges, j \in DOMAIN pre.enemies :
      LET s == pre.surges[k]
          e == pre.enemies[j]
          q == Len(pre.enemies) - 1
      IN (/\ FirstFriend(k) /\ s.owner = "player" /\ ~s.pierce
          /\ FirstReached(j, s) /\ e.hp - s.dmg <= 0)
         => /\ \A i \in DOMAIN enemies : enemies[i] # [e EXCEPT !.hp = enemies[i].hp]
            /\ Owned(surges, {"player"}) < Owned(pre.surges, {"player"})
            /\ (e.kind = "Virus" /\ Owned(pre.surges, {"player", "oc"}) = 1) =>
                 /\ Cardinality(Newcomers)
                      = Min2(Litter(e), Max2(0, MAX_ENEMIES_ON_FIELD - q))
                 /\ Len(enemies) = q + Cardinality(Newcomers)

\* a player surge killed a Virus of tier >= 1 when 17 enemies were left: one
\* of its two children was inserted
C12_Witness ==
  /\ pc = "hazards" /\ Owned(pre.surges, {"player", "oc"}) = 1
  /\ \E k \in DOMAIN pre.surges :
       /\ FirstFriend(k) /\ pre.surges[k].owner = "player"
       /\ FirstReached(1, pre.surges[k])
       /\ pre.enemies[1].hp - pre.surges[k].dmg <= 0
  /\ Litter(pre.enemies[1]) = 2
  /\ Len(pre.enemies) = MAX_ENEMIES_ON_FIELD
  /\ Cardinality(Newcomers) = 1 /\ Len(enemies) = MAX_ENEMIES_ON_FIELD

\* C13: an update pass runs in state play, and its last block decides: if
\* the pass ends with hero.hp <= 0 the state becomes gameover in that pass,
\* also when no enemy remains, and highscore becomes max(highscore, score);
\* if it ends with hp > 0 and no enemies the state becomes sectorclear with
\* the same highscore update; otherwise the state stays play (and highscore
\* stays).
C13_WinLose ==
  [][pc = "winlose" =>
       /\ state = "play" /\ pc' = "frame"
       /\ hero' = hero /\ enemies' = enemies /\ score' = score
       /\ IF hero.hp <= 0
          THEN state' = "gameover" /\ highscore' = Max2(highscore, score)
          ELSE IF Len(enemies) = 0
          THEN state' = "sectorclear" /\ highscore' = Max2(highscore, score)
          ELSE state' = "play" /\ highscore' = highscore]_vars

\* a pass that ended with the hero dead and the field empty: gameover, and
\* the score of the pass is the new highscore
C13_Witness ==
  /\ pc = "frame" /\ last = "update" /\ pre.state = "play"
  /\ hero.hp <= 0 /\ enemies = <<>>
  /\ state = "gameover" /\ score > 0 /\ highscore = score

\* a pass that ended with the hero alive and the field empty
C13_WitnessClear ==
  /\ pc = "frame" /\ last = "update" /\ pre.state = "play"
  /\ hero.hp > 0 /\ enemies = <<>>
  /\ state = "sectorclear" /\ highscore > score

\* ---- the session
\* a step of handle_events (the other steps belong to a frame's update)
InputStep == pc = "frame" /\ pc' = "frame" /\ frame' = frame

\* C14: a frame processed while the state is menu, paused, gameover or
\* sectorclear leaves hero (with its timers and meter), enemies, surges,
\* glitches, both emitters, the inter-train timer, score, highscore, sector
\* and state unchanged; the blocks of update run only in state play.
C14_IdleFrames ==
  [][/\ pc # "frame" => state = "play"
     /\ (~InputStep /\ state \in {"menu", "paused", "gameover", "sectorclear"})
          => /\ frame' = frame + 1 /\ pc' = "frame"
             /\ UNCHANGED <<state, sector, score, highscore, hero, enemies,
                            surges, glitches, nat_timer, emit_row, emit_col>>]_vars

\* a frame has passed over a paused game with enemies on the field
C14_Witness ==
  /\ last = "idle" /\ state = "paused" /\ frame > 0 /\ dt > 0
  /\ Len(enemies) > 0 /\ nat_timer > 0

\* the arguments handle_events passes to build_sector on a step into play
BuildArgs ==
  IF state = "sectorclear"
  THEN <<SECTOR_START_ENEMIES[1] + sector' \div 2,
         SECTOR_START_ENEMIES[2] + sector' \div 2,
         SECTOR_START_ENEMIES[3] + (IF sector' % 3 = 0 THEN 1 ELSE 0)>>
  ELSE SECTOR_START_ENEMIES
OfKind(en, kind) == Cardinality({i \in DOMAIN en : en[i].kind = kind})

\* C15: immediately after build_sector(v, b, w) there are exactly v Viruses,
\* b Bugs and w Worms, all alive (v + b + w enemies in total), the surge and
\* glitch collections are empty, both emitters are inactive, and the hero is
\* a fresh Hero with hp = HERO_HP, oc_meter = 0, no invulnerability and no
\* fire cooldown, whatever the hero was before.
C15_BuildSector ==
  [][(InputStep /\ state \in {"menu", "gameover", "sectorclear"} /\ state' = "play")
       => /\ OfKind(enemies', "Virus") = BuildArgs[1]
          /\ OfKind(enemies', "Bug") = BuildArgs[2]
          /\ OfKind(enemies', "Worm") = BuildArgs[3]
          /\ Len(enemies') = BuildArgs[1] + BuildArgs[2] + BuildArgs[3]
          /\ \A i \in DOMAIN enemies' : enemies'[i].hp > 0
          /\ surges' = <<>> /\ glitches' = <<>>
          /\ ~emit_row'.active /\ ~emit_col'.active
          /\ hero'.hp = HERO_HP /\ hero'.oc_meter = 0
          /\ hero'.ifr = 0 /\ hero'.cd = 0 /\ hero'.pos = CENTER]_vars

\* sector 2 has been built after a pass that left the hero hurt, with a
\* charged meter and invulnerable
C15_Witness ==
  /\ last = "event" /\ pc = "frame" /\ state = "play" /\ sector = 2
  /\ pre.hero.hp < HERO_HP /\ pre.hero.oc_meter > 0 /\ pre.hero.ifr > 0
  /\ hero.hp = HERO_HP /\ hero.oc_meter = 0 /\ hero.ifr = 0
  /\ Len(enemies) > 0 /\ surges = <<>>

\* ---- natural trains
\* the step gave em a new train
Scheduled(em, em2) ==
  \/ ~em.active /\ em2.active
  \/ em2.count > em.count
  \/ em2.active /\ (em2.x_or_y # em.x_or_y \/ em2.dir # em.dir)

\* C16: in every reachable state at most one of emit_row.active and
\* emit_col.active is true; a train is scheduled only in a step that found
\* neither emitter active, and the inter-train timer changes during update
\* only in such a step.
C16_OneTrain ==
  [][/\ ~(emit_row.active /\ emit_col.active)
     /\ ~(emit_row'.active /\ emit_col'.active)
     /\ (Scheduled(emit_row, emit_row') \/ Scheduled(emit_col, emit_col'))
          => ~emit_row.active /\ ~emit_col.active
     /\ (~InputStep /\ nat_timer' # nat_timer)
          => ~emit_row.active /\ ~emit_col.active]_vars

\* the scheduling block has run while a train was on its way: the emitter
\* is past the packets a fresh train has left after its first update
C16_Witness ==
  /\ pc = "enemies" /\ frame = 2
  /\ \E em \in {emit_row, emit_col} : em.active /\ em.count < 5
  /\ nat_timer = NAT_SURGE_EVERY[1]

\* a train has ended and the timer runs again
C16_WitnessRestart ==
  /\ pc = "enemies" /\ frame = 2
  /\ ~emit_row.active /\ ~emit_col.active
  /\ nat_timer < NAT_SURGE_EVERY[2] /\ nat_timer > NAT_SURGE_EVERY[1]

\* ---- wires
OnWire(s) ==
  /\ s.dir.x # 0 => s.pos.y % GRID = 0
  /\ s.dir.y # 0 => s.pos.x % GRID = 0

\* C17: from the surge-move block to the end of the pass, and between
\* frames, every live surge lies on a grid wire: travelling horizontally its
\* y is a multiple of GRID, travelling vertically its x is, wherever it was
\* created (hero position, enemy position or emitter edge).
C17_SurgesOnWire ==
  pc \in {"cancels", "hits", "hazards", "winlose", "frame"} =>
    \A i \in DOMAIN surges : OnWire(surges[i])

\* a pass has ended with a live horizontal player surge, fired by a hero
\* that stands between two horizontal wires
C17_Witness ==
  /\ pc = "frame" /\ last = "update" /\ hero.pos.y % GRID # 0
  /\ \E i \in DOMAIN surges :
       surges[i].owner = "player" /\ surges[i].dir.x # 0 /\ surges[i].ttl = SURGE_LEN - dt

\* ---- session states
States == {"menu", "play", "paused", "gameover", "sectorclear"}
Changes(seq) == Cardinality({i \in 1..(Len(seq) - 1) : seq[i] # seq[i + 1]})
\* the edges an input event may take, with the inputs that take them
InputEdges ==
  {<<"menu", "K_SPACE", "play">>, <<"menu", "MOUSE1", "play">>,
   <<"play", "K_p", "paused">>, <<"paused", "K_p", "play">>,
   <<"gameover", "K_r", "play">>,
   <<"sectorclear", "K_SPACE", "play">>, <<"sectorclear", "MOUSE1", "play">>}

\* C18: the session state changes only along the edges menu -> play (start
\* input), play <-> paused (pause toggle), play -> gameover (hero dead, at
\* the end of a pass), play -> sectorclear (no enemies and hero alive, at the
\* end of a pass), gameover -> play (restart input), sectorclear -> play
\* (advance input); menu is never re-entered; and one input event changes
\* the state at most once on its way through the handler.
C18_SessionEdges ==
  [][/\ state \in States /\ state' \in States
     /\ \A ev \in Events, st \in States :
          LET seq == EventStates(ev, st)
          IN /\ Changes(seq) <= 1
             /\ seq[Len(seq)] # st => <<st, ev, seq[Len(seq)]>> \in InputEdges
     /\ InputStep =>
          \E ev \in Events : state' = EventStates(ev, state)[Len(EventStates(ev, state))]
     /\ (~InputStep /\ state' # state) =>
          /\ pc = "winlose" /\ state = "play"
          /\ \/ state' = "gameover" /\ hero.hp <= 0
             \/ state' = "sectorclear" /\ hero.hp > 0 /\ Len(enemies) = 0]_vars

\* a game was lost, restarted and then paused
C18_Witness ==
  /\ state = "paused" /\ last = "event" /\ score = 0 /\ sector = 1
  /\ pre.state = "play" /\ pre.hero.hp <= 0 /\ hero.hp = HERO_HP

\* ---- directions
Sign(n) == IF n > 0 THEN 1 ELSE IF n < 0 THEN -1 ELSE 0
Cardinals == {Vec(1, 0), Vec(-1, 0), Vec(0, 1), Vec(0, -1)}
\* the direction the claim gives for the vector v
Heading(v) ==
  IF v.x = 0 /\ v.y = 0 THEN Vec(1, 0)
  ELSE IF Abs(v.x) >= Abs(v.y) THEN Vec(Sign(v.x), 0)
  ELSE Vec(0, Sign(v.y))

\* C19: for every vector (x, y), cardinal_from returns one of the four
\* cardinal unit vectors: (1, 0) when x = y = 0, otherwise (sign(x), 0) when
\* |x| >= |y| and (0, sign(y)) when |x| < |y|; the surge the hero fires
\* travels where cardinal_from sends the aim (or the hero's facing, when the
\* aim is the zero vector), the surge a Bug fires where it sends the vector
\* from the Bug to the hero, and every live surge's direction is cardinal.
C19_Cardinal ==
  /\ \A v \in AimVectors :
       cardinal_from(v) = Heading(v) /\ cardinal_from(v) \in Cardinals
  /\ \A i \in DOMAIN surges : surges[i].dir \in Cardinals
  /\ (pc = "emit" /\ keys.fire /\ pre.hero.cd <= 0) =>
       /\ Len(surges) = Len(pre.surges) + 1
       /\ surges[Len(surges)].owner = "player"
       /\ surges[Len(surges)].dir
            = Heading(IF keys.aim = Vec(0, 0) THEN pre.hero.face ELSE keys.aim)
  /\ pc = "mitosis" =>
       \A i \in (Len(pre.surges) + 1)..Len(surges) :
         surges[i].dir = Heading(Vec(hero.pos.x - surges[i].pos.x,
                                     hero.pos.y - surges[i].pos.y))

\* the hero has fired at an aim up and to the left, as far up as left: the
\* surge travels left
C19_Witness ==
  /\ pc = "emit" /\ keys.fire /\ keys.aim = Vec(-2, -2)
  /\ Len(surges) = Len(pre.surges) + 1
  /\ surges[Len(surges)].dir = Vec(-1, 0)

\* a Bug standing on the hero has fired: the surge travels right
C19_WitnessZero ==
  /\ pc = "mitosis" /\ Len(surges) > Len(pre.surges)
  /\ surges[Len(surges)].owner = "enemy"
  /\ surges[Len(surges)].pos = hero.pos /\ surges[Len(surges)].dir = Vec(1, 0)

\* ---- audio
\* C20: the audio sink does not change the simulation.  Whatever sink the
\* constructor left behind, available or not, every play call returns
\* without raising and leaves the sink as it was, in the constructor and in
\* every block of update, so no update is aborted and the simulation takes
\* the steps it takes without audio; the sink itself never changes.
C20_AudioIndependent ==
  [][/\ \A s \in Sinks, k \in SoundKeys : play(s, k) = s /\ ~play(s, k).fault
     /\ sfx \in Sinks /\ sfx' = sfx
     /\ ~sfx.fault /\ ~sfx'.fault]_vars

\* a pass of update has run to its end, shots fired, on a sink whose mixer
\* came up but whose sounds could not all be made
C20_Witness ==
  /\ pc = "frame" /\ last = "update" /\ frame = MaxFrames
  /\ ~sfx.enabled /\ sfx.loaded # {} /\ ~sfx.fault
  /\ Len(surges) > 0

\* the same on a sink that plays
C20_WitnessEnabled ==
  /\ pc = "frame" /\ last = "update" /\ frame = MaxFrames
  /\ sfx.enabled /\ Len(surges) > 0

\* ---- one friendly surge in the hit block
\* the friendly surge of a block that ran exactly one, and the enemies (by
\* their place in the list before the block) it overlapped at the start
OnlyFriend(k) ==
  FirstFriend(k) /\ Owned(pre.surges, {"player", "oc"}) = 1
Overlapped(s) == {j \in DOMAIN pre.enemies : Reached(pre.enemies[j], s)}
\* the enemies the surge is to damage, and those of the old list that stay
Struck(s) ==
  IF s.pierce \/ Overlapped(s) = {} THEN Overlapped(s)
  ELSE {CHOOSE j \in Overlapped(s) : \A i \in Overlapped(s) : j <= i}
Staying(s) ==
  {j \in DOMAIN pre.enemies : j \in Struck(s) => pre.enemies[j].hp - s.dmg > 0}
After(j, s) ==
  IF j \in Struck(s) THEN [pre.enemies[j] EXCEPT !.hp = pre.enemies[j].hp - s.dmg]
  ELSE pre.enemies[j]
Place(j, s) == Cardinality({i \in Staying(s) : i <= j})

\* C21: in a hit block with one friendly surge, a non-piercing surge damages
\* only the first enemy of the list that overlaps it, once, and is removed
\* from the surge list; a piercing surge damages every enemy that overlapped
\* it at the start of its scan, once each, and stays in the surge list; every
\* other enemy is left as it was, and the children inserted during the scan
\* have their full hp.
C21_OneScan ==
  pc = "hazards" =>
    \A k \in DOMAIN pre.surges :
      OnlyFriend(k) =>
        LET s == pre.surges[k]
        IN /\ Len(enemies) >= Cardinality(Staying(s))
           /\ \A j \in Staying(s) : enemies[Place(j, s)] = After(j, s)
           /\ \A i \in (Cardinality(Staying(s)) + 1)..Len(enemies) :
                /\ enemies[i].kind = "Virus"
                /\ enemies[i].hp = VirusHp(enemies[i].tier)
           /\ Owned(surges, {"player", "oc"})
                = (IF s.pierce \/ Overlapped(s) = {} THEN 1 ELSE 0)

\* a piercing surge has killed both enemies it overlapped, a Virus among
\* them, and the children stand undamaged within its reach
C21_Witness ==
  /\ pc = "hazards"
  /\ \E k \in DOMAIN pre.surges :
       /\ OnlyFriend(k) /\ pre.surges[k].pierce
       /\ Cardinality(Overlapped(pre.surges[k])) = 2
       /\ Staying(pre.surges[k]) \cap Overlapped(pre.surges[k]) = {}
       /\ \E i \in DOMAIN enemies :
            /\ i \in Newcomers /\ Reached(enemies[i], pre.surges[k])
            /\ enemies[i].hp = VirusHp(enemies[i].tier)
  /\ Owned(surges, {"oc"}) = 1

\* a non-piercing surge overlapped two enemies and damaged the first only
C21_WitnessFirstOnly ==
  /\ pc = "hazards"
  /\ \E k \in DOMAIN pre.surges :
       /\ OnlyFriend(k) /\ ~pre.surges[k].pierce
       /\ Cardinality(Overlapped(pre.surges[k])) = 2
  /\ Owned(surges, {"player"}) = 0
  /\ \E i \in DOMAIN enemies : enemies[i] = Escort

\* ---- hostile surges in the hit block
OnHero(s) ==
  /\ Hostile(s)
  /\ (pre.hero.pos.x - s.pos.x) * (pre.hero.pos.x - s.pos.x)
       + (pre.hero.pos.y - s.pos.y) * (pre.hero.pos.y - s.pos.y)
       <= (HERO_R + s.r) * (HERO_R + s.r)
HostilePast(s) == Hostile(s) /\ ~OnHero(s)
Struck_Hero == \E m \in DOMAIN pre.surges : OnHero(pre.surges[m])

\* C22: the hit block removes from the surge list every hostile surge within
\* hero.r + surge.r of the hero, invulnerable or not, and no other hostile
\* surge; the hero loses 1 hp if such a surge exists and the invulnerability
\* timer was 0, and none otherwise; a block without friendly surges leaves the
\* enemy list and the score as they were, whatever the hostile surges overlap.
C22_HostileHits ==
  pc = "hazards" =>
    /\ SelectSeq(surges, Hostile) = SelectSeq(pre.surges, HostilePast)
    /\ hero.hp = pre.hero.hp - (IF Struck_Hero /\ pre.hero.ifr = 0 THEN 1 ELSE 0)
    /\ Owned(pre.surges, {"player", "oc"}) = 0
         => enemies = pre.enemies /\ score = pre.score

\* an invulnerable hero was reached by a hostile surge, which is gone, while
\* a natural surge lying on an enemy stayed and left it alone
C22_Witness ==
  /\ pc = "hazards" /\ pre.hero.ifr > 0 /\ Struck_Hero
  /\ hero.hp = pre.hero.hp
  /\ Owned(pre.surges, {"player", "oc"}) = 0
  /\ \E i \in DOMAIN surges :
       /\ surges[i].owner = "natural"
       /\ \E e \in Range(enemies) : Reached(e, surges[i])
  /\ Len(surges) < Len(pre.surges)

\* two hostile surges reached a vulnerable hero, who lost one hp
C22_WitnessOnce ==
  /\ pc = "hazards" /\ pre.hero.ifr = 0
  /\ Cardinality({m \in DOMAIN pre.surges : OnHero(pre.surges[m])}) = 2
  /\ hero.hp = pre.hero.hp - 1 /\ surges = <<>>

\* ---- what a contact is worth
Lethal(s) == Struck(s) \ Staying(s)
Worth(s) ==
  IF s.owner = "player"
  THEN 45 * Cardinality(Struck(s)) + 120 * Cardinality(Lethal(s))
  ELSE 35 * Cardinality(Struck(s)) + 90 * Cardinality(Lethal(s))
Charge(s) ==
  IF s.owner = "player" THEN OC_FILL_PER_KILL * Cardinality(Struck(s)) ELSE 0
Scored ==
  pc = "hazards" =>
    \A k \in DOMAIN pre.surges :
      OnlyFriend(k) =>
        /\ score = pre.score + Worth(pre.surges[k])
        /\ hero.oc_meter
             = Min2(OC_MAX, pre.hero.oc_meter + Charge(pre.surges[k]))

C27_WitnessOc ==
  /\ pc = "hazards"
  /\ \E k \in DOMAIN pre.surges :
       /\ OnlyFriend(k) /\ pre.surges[k].owner = "oc"
       /\ Cardinality(Struck(pre.surges[k])) = 2
       /\ Cardinality(Lethal(pre.surges[k])) = 1
  /\ score = pre.score + 160 /\ hero.oc_meter = pre.hero.oc_meter

\* ---- overclock surges
IsOc(v) == v.owner = "oc"
OcOf(ss) == SelectSeq(ss, IsOc)
\* the overclock surges of ss that are still live after a move of dt
OcLasting(v) == IsOc(v) /\ SurgeAlive(SurgeMoved(v, dt))
\* a build_sector call has run in this handle_events step
Rebuilt ==
  InputStep /\ state \in {"menu", "gameover", "sectorclear"} /\ state' = "play"

\* C28: no step of the surge-vs-surge block or of the hit block changes the
\* overclock surges of the list, whatever hostile surges and enemies they
\* overlap; the blast block only adds some; the "surges move" block drops
\* those (and only those) whose time-to-live has run out or which have left
\* the playfield by more than the margin; a handle_events step that rebuilds
\* the sector empties the list; every other step leaves them all in the list.
C28_OcSurvives ==
  [][IF pc = "move"
     THEN Len(OcOf(surges')) = Len(SelectSeq(surges, OcLasting))
     ELSE IF pc = "blast"
     THEN Len(OcOf(surges')) >= Len(OcOf(surges))
     ELSE IF Rebuilt
     THEN surges' = <<>>
     ELSE OcOf(surges') = OcOf(surges)]_vars

\* an overclock surge lay within cancel range of two hostile surges, which
\* are gone, and is still in the list
C28_Witness ==
  /\ pc = "hits"
  /\ \E v \in Range(pre.surges) :
       /\ IsOc(v) /\ v \in Range(surges)
       /\ Cardinality({j \in DOMAIN pre.surges :
                         Hostile(pre.surges[j]) /\ InCancelRange(v, pre.surges[j])}) = 2
  /\ Owned(surges, {"enemy", "natural"}) = 0

\* an overclock surge lay on two enemies in the hit block, killed one of
\* them, and is still in the list
C28_WitnessHit ==
  /\ pc = "hazards"
  /\ \E v \in Range(pre.surges) :
       IsOc(v) /\ Cardinality(Overlapped(v)) = 2 /\ v \in Range(surges)
  /\ Len(enemies) < Len(pre.enemies)

\* a worn overclock surge ran out of time in the next frame's move
C28_WitnessExpired ==
  /\ pc = "cancels" /\ frame = 2
  /\ Owned(pre.surges, {"oc"}) > 0 /\ Owned(surges, {"oc"}) = 0

\* ---- who can hurt whom
\* a hostile surge, or a glitch, lies on the hero
SurgeOnHero ==
  \E s \in Range(surges) :
    Hostile(s) /\ Within(hero.pos, s.pos, HERO_R + s.r)
GlitchOnHero ==
  \E g \in Range(glitches) : Within(hero.pos, g.pos, HERO_R + GLITCH_R)
\* a friendly surge lies on the enemy e
FriendOn(e) == \E s \in Range(surges) : Friendly(s) /\ Reached(e, s)

\* C30: a step lowers the hero's hp only if it is the hit block with an
\* enemy or natural surge on the hero, or the hazard block with a glitch on
\* the hero; an enemy is changed or removed only by the hit block and only
\* if a player or oc surge lies on it, so enemy and natural surges lying on
\* it leave it as it was.
C30_NoFriendlyFire ==
  [][/\ hero'.hp < hero.hp =>
          \/ pc = "hits" /\ SurgeOnHero
          \/ pc = "hazards" /\ GlitchOnHero
     /\ \A j \in DOMAIN enemies :
          ~(pc = "hits" /\ FriendOn(enemies[j])) => enemies[j] \in Range(enemies')
    ]_vars

\* the hit block has run with a natural surge on two enemies, an enemy surge
\* on the hero and player surges out of reach of nobody but the enemies: the
\* hero lost one hp, one enemy lost one hp, the other is as it was
C30_Witness ==
  /\ pc = "hazards"
  /\ hero.hp = pre.hero.hp - 1
  /\ \E s \in Range(pre.surges) :
       s.owner = "natural" /\ Cardinality(Overlapped(s)) = 2
  /\ Owned(pre.surges, {"player"}) = 1 /\ Owned(pre.surges, {"enemy"}) = 1
  /\ Len(enemies) = Len(pre.enemies)
  /\ Cardinality({j \in DOMAIN enemies : enemies[j] # pre.enemies[j]}) = 1

\* the hazard block has run with a glitch on a vulnerable hero
C30_WitnessGlitch ==
  /\ pc = "winlose" /\ pre.glitches # <<>>
  /\ hero.hp = pre.hero.hp - 1 /\ pre.hero.ifr = 0

\* ---- the life of a surge
\* the i-th surge runs out of time in a move of dt, or ends up beyond the
\* 20-pixel margin around the playfield
Expires(i) == surges[i].ttl - dt <= 0
Departs(i) ==
  LET m == SurgeMoved(surges[i], dt)
  IN m.pos.x < -20 \/ m.pos.x > W + 20 \/ m.pos.y < -20 \/ m.pos.y > H + 20
\* the time-to-live the friendly surges of FlowSurges started with
FirstTtl(s) ==
  IF s.owner = "oc" THEN OC_SURGE_TTL - 2
  ELSE IF s.dir = Vec(1, 0) THEN SURGE_LEN ELSE 30
MoveStep ==
  /\ dt > 0
  /\ Len(surges')
       <= Len(surges) - Cardinality({i \in DOMAIN surges : Expires(i) \/ Departs(i)})
  /\ \A j \in DOMAIN surges' :
       /\ surges'[j].ttl > 0
       /\ \E i \in DOMAIN surges :
            /\ i >= j /\ surges'[j].ttl = surges[i].ttl - dt
            /\ surges'[j].owner = surges[i].owner /\ surges'[j].dir = surges[i].dir

\* C23: with frames of dt > 0, the "surges move" block lowers every surge's
\* time-to-live by dt and drops, in that pass, every surge whose time-to-live
\* has reached 0 or which has left the playfield by more than the margin;
\* after f passes a surge that began with time-to-live T has T - f * dt > 0
\* left, so it is in the list for fewer than T / dt passes; and while the
\* state stays play the surges that were in the list are eventually all
\* gone from it.
C23_SurgesExpire ==
  /\ [][pc = "move" => MoveStep]_vars
  /\ [](pc = "cancels" =>
          \A s \in Range(surges) :
            Friendly(s) => s.ttl = FirstTtl(s) - frame * dt /\ s.ttl > 0)
  /\ <>[](state # "play" \/ Owned(surges, {"player", "oc"}) = 0)

\* the move block met a friendly surge inside the playfield whose time had
\* run out, and dropped it
C23_Witness ==
  /\ pc = "cancels" /\ state = "play"
  /\ \E s \in Range(pre.surges) :
       /\ Friendly(s) /\ s.ttl <= dt /\ 0 < s.pos.x /\ s.pos.x < W
       /\ Owned(surges, {s.owner}) < Owned(pre.surges, {s.owner})

\* the last friendly surge is gone and play goes on
C23_WitnessGone ==
  /\ pc = "frame" /\ state = "play" /\ frame > 0
  /\ Owned(surges, {"player", "oc"}) = 0 /\ Len(surges) > 0

\* ---- the packets of a train
\* the natural surges the step appended
Packets == Owned(surges', {"natural"}) - Owned(surges, {"natural"})
\* what a scheduling block does to the emitter em
TrainStep(em, em2) ==
  IF em.active
  THEN /\ em2.count = em.count - Packets
       /\ em2.active = (em2.count > 0)
       /\ em2.x_or_y = em.x_or_y /\ em2.dir = em.dir
  ELSE IF em2.active \/ em2.count # em.count
  THEN /\ ~emit_row.active /\ ~emit_col.active
       /\ Packets = 1 /\ em2.count + 1 \in 6..10 /\ em2.active
  ELSE em2 = em
EmitStep ==
  /\ Packets \in {0, 1} /\ Len(surges') = Len(surges) + Packets
  /\ TrainStep(emit_row, emit_row') /\ TrainStep(emit_col, emit_col')
  /\ (~emit_row'.active /\ ~emit_col'.active
        /\ ~emit_row.active /\ ~emit_col.active) => Packets = 0
Trains ==
  \A em \in {emit_row, emit_col} : em.active = (em.count > 0) /\ em.count < 10

\* C24: a scheduling block appends at most one natural surge.  It gives an
\* idle emitter a train of c packets, 6 <= c <= 10, and appends the first;
\* it takes each packet it appends off the count of the running train; the
\* emitter is active exactly while packets are left, so it goes inactive in
\* the block that appends the c-th packet, and c are appended in all; with no
\* train running before or after the block nothing is appended; no other
\* block touches the emitters or appends a natural surge.  While the state
\* stays play a running train eventually ends.
C24_Train ==
  /\ [][IF pc = "emit" THEN EmitStep
        ELSE /\ emit_row' = emit_row /\ emit_col' = emit_col
             /\ Packets <= 0]_vars
  /\ []Trains
  /\ (emit_row.active \/ emit_col.active)
       ~> (state # "play" \/ (~emit_row.active /\ ~emit_col.active))

\* the block has appended a packet and no train is running any more: it
\* was the last one of its train
C24_Witness ==
  /\ pc = "enemies" /\ state = "play"
  /\ ~emit_row.active /\ ~emit_col.active
  /\ Owned(surges, {"natural"}) = Owned(pre.surges, {"natural"}) + 1

\* a train of ten packets has just begun
C24_WitnessBegun ==
  /\ pc = "enemies"
  /\ \E em \in {emit_row, emit_col} : em.active /\ em.count = 9
  /\ Owned(surges, {"natural"}) = Owned(pre.surges, {"natural"}) + 1

\* ---- the way an enemy heads
\* the enemy e after the move and the bounces of this frame's common_move,
\* where the turn is decided
Carried(e) == MoveAlong(Resnap(e), Travel(EnemySpeed(e), dt))
Arrived(e) == BounceY(BounceX(Carried(e)))
\* e has run into the playfield bounds along the axis it travels on
HitsBound(e) ==
  \/ e.dir.x # 0 /\ (Carried(e).pos.x < 12 \/ Carried(e).pos.x > W - 12)
  \/ e.dir.y # 0 /\ (Carried(e).pos.y < 12 \/ Carried(e).pos.y > H - 12)
Reverse(d) == Vec(-d.x, -d.y)
SameAxis(d1, d2) == (d1.x = 0) = (d2.x = 0)

\* C25: every enemy's direction is one of (1,0), (-1,0), (0,1), (0,-1); the
\* "enemies update" block takes an enemy to the perpendicular axis only if
\* the position it has reached in that update is at an intersection; an
\* enemy that stays on its axis has its direction reversed if it has run
\* into the playfield bounds along that axis and unchanged if not; no other
\* block changes the direction of an enemy that stays in the list.
C25_Heading ==
  /\ [](\A e \in Range(enemies) : e.dir \in Cardinals)
  /\ [][IF pc = "enemies"
        THEN /\ Len(enemies') = Len(enemies)
             /\ \A i \in DOMAIN enemies :
                  LET e == enemies[i]
                      d == enemies'[i].dir
                  IN IF ~SameAxis(d, e.dir)
                     THEN at_intersection(Arrived(e).pos)
                     ELSE d = (IF HitsBound(e) THEN Reverse(e.dir) ELSE e.dir)
        ELSE pc \in {"blast", "fire", "emit", "mitosis", "move", "cancels",
                     "hazards", "winlose"}
               => /\ Len(enemies') >= Len(enemies)
                  /\ \A i \in DOMAIN enemies : enemies'[i].dir = enemies[i].dir]_vars

\* an enemy has just turned off its axis at an intersection, and another one
\* has been turned back by the playfield bounds
C25_Witness ==
  /\ pc = "mitosis"
  /\ Len(enemies) = Len(pre.enemies)
  /\ \E i \in DOMAIN enemies :
       /\ ~SameAxis(enemies[i].dir, pre.enemies[i].dir)
       /\ at_intersection(enemies[i].pos)

C25_WitnessBounce ==
  /\ pc = "mitosis"
  /\ Len(enemies) = Len(pre.enemies)
  /\ \E i \in DOMAIN enemies :
       /\ enemies[i].dir = Reverse(pre.enemies[i].dir)
       /\ \/ enemies[i].pos.x \in {12, W - 12}
          \/ enemies[i].pos.y \in {12, H - 12}

\* an enemy between two crossings, where it cannot turn
C25_WitnessBetween ==
  /\ pc = "mitosis"
  /\ \E i \in DOMAIN enemies : ~at_intersection(enemies[i].pos)



\* ---------------------------------------------------------------------------
\* C26: player fire and the shot cooldown
\* ---------------------------------------------------------------------------

\* Player surges created by the block that ran last.
ShotsMade == Owned(surges, {"player"}) - Owned(pre.surges, {"player"})

\* After the fire block: at most one surge was made, only with fire asserted
\* and a cooldown of 0 after this pass's decrement; the shot is appended with
\* the cooldown set to HERO_SHOT_CD and, for a zero aim vector, it flies along
\* the hero's facing.
FiredRight ==
  /\ ShotsMade \in {0, 1}
  /\ ShotsMade = 1 =>
       /\ keys.fire /\ pre.hero.cd = 0
       /\ hero.cd = HERO_SHOT_CD
       /\ surges[Len(surges)].owner = "player"
       /\ surges[Len(surges)].pos = pre.hero.pos
       /\ (keys.aim = Vec(0, 0) => surges[Len(surges)].dir = pre.hero.face)

\* No other block of the update pass, and no input event, makes a player surge.
OnlyFireShoots ==
  pc # "fire" => Owned(surges', {"player"}) <= Owned(surges, {"player"})

\* C26 as written: a player surge is made only by the fire block, at most one
\* per pass, only with fire asserted and cooldown 0, and any two successive
\* player shots are at least HERO_SHOT_CD of play time apart.
C26_AsWritten ==
  /\ [][OnlyFireShoots]_vars
  /\ [](pc = "emit" => FiredRight /\ (ShotsMade = 1 => shots.gap >= HERO_SHOT_CD))

\* C26 (amended): the same, with the separation of HERO_SHOT_CD holding between
\* two successive shots of the same hero, that is with no build_sector call
\* between them (build_sector makes a new hero whose cooldown is 0).
C26_ShotCooldown ==
  /\ [][OnlyFireShoots]_vars
  /\ [](pc = "emit" => FiredRight /\ (ShotsMade = 1 => shots.hero_gap >= HERO_SHOT_CD))

\* The second shot of one hero, made with a zero aim vector while the surge
\* of the first one is still flying.
C26_Witness ==
  /\ pc = "emit" /\ ShotsMade = 1 /\ keys.aim = Vec(0, 0)
  /\ Owned(pre.surges, {"player"}) >= 1
  /\ shots.gap >= HERO_SHOT_CD /\ pre.hero.cd = 0 /\ frame = 2

\* A shot right after a sector was rebuilt, less than HERO_SHOT_CD after the
\* previous hero's last shot.
C26_WitnessRebuilt ==
  /\ pc = "emit" /\ ShotsMade = 1 /\ shots.gap < HERO_SHOT_CD
  /\ shots.hero_gap = HERO_SHOT_CD

\* Fire asserted during the cooldown: no surge is made.
C26_WitnessHeld ==
  pc = "emit" /\ keys.fire /\ pre.hero.cd > 0 /\ ShotsMade = 0

\* ---------------------------------------------------------------------------
\* C29: the states of the game at a frame boundary
\* ---------------------------------------------------------------------------

\* C29: at every frame boundary, play implies a living hero and at least one
\* living enemy, gameover implies hero.hp = 0, and sectorclear implies a
\* living hero and an empty enemy list; so no update pass starts with a dead
\* hero or an empty field.
C29_FrameBoundary ==
  pc = "frame" =>
    /\ state = "play" =>
         /\ hero.hp >= 1
         /\ \E i \in DOMAIN enemies : enemies[i].hp >= 1
    /\ state = "gameover" => hero.hp = 0
    /\ state = "sectorclear" => hero.hp >= 1 /\ enemies = <<>>

\* The boundary after the pass that took the hero's last hp.
C29_Witness ==
  /\ pc = "frame" /\ last = "update" /\ state = "gameover"
  /\ pre.state = "play" /\ hero.hp = 0

\* The boundary after the pass that killed the last enemy.
C29_WitnessClear ==
  /\ pc = "frame" /\ last = "update" /\ state = "sectorclear"
  /\ pre.state = "play" /\ enemies = <<>>

\* The boundary after a pass that left the game in play.
C29_WitnessPlay ==
  /\ pc = "frame" /\ last = "update" /\ state = "play"
  /\ pre.state = "play" /\ hero.hp >= 1 /\ Len(enemies) >= 1

\* The boundary after an input event that rebuilt the sector from gameover.
C29_WitnessRestart ==
  /\ pc = "frame" /\ last = "event" /\ state = "play"
  /\ hero.hp = HERO_HP /\ losses.since < HERO_IFRAMES

\* ---------------------------------------------------------------------------
\* C31: score, sector and high score across the session transitions
\* ---------------------------------------------------------------------------

\* The enemy list is the one build_sector makes for the first sector.
FirstSector(en) ==
  /\ OfKind(en, "Virus") = SECTOR_START_ENEMIES[1]
  /\ OfKind(en, "Bug") = SECTOR_START_ENEMIES[2]
  /\ OfKind(en, "Worm") = SECTOR_START_ENEMIES[3]
  /\ Len(en) = SECTOR_START_ENEMIES[1] + SECTOR_START_ENEMIES[2]
                 + SECTOR_START_ENEMIES[3]

\* C31: starting from the menu and restarting from gameover set score = 0 and
\* sector = 1 and build the first sector; advancing from sectorclear raises
\* sector by exactly 1 and leaves score alone; and no step at all, input event
\* or update block, lowers highscore.
C31_Counters ==
  [][/\ highscore' >= highscore
     /\ (InputStep /\ state \in {"menu", "gameover"} /\ state' = "play")
          => /\ score' = 0 /\ sector' = 1
             /\ FirstSector(enemies') /\ hero' = HeroNew(CENTER)
             /\ surges' = <<>> /\ glitches' = <<>>
     /\ (InputStep /\ state = "sectorclear" /\ state' = "play")
          => sector' = sector + 1 /\ score' = score]_vars

\* A game lost in sector 3 with a score and a high score was restarted.
C31_Witness ==
  /\ pc = "frame" /\ last = "event" /\ state = "play"
  /\ pre.state = "play" /\ pre.hero.hp <= 0 /\ pre.score > 0
  /\ score = 0 /\ sector = 1 /\ highscore >= pre.score
  /\ FirstSector(enemies)

\* Sector 3 was cleared with a new high score and sector 4 entered.
C31_WitnessAdvance ==
  /\ pc = "frame" /\ last = "event" /\ state = "play"
  /\ sector = 4 /\ score > 0 /\ highscore = score /\ score = pre.score

\* A game ended with a score below the high score, which is kept.
C31_WitnessKept ==
  /\ pc = "frame" /\ last = "update" /\ state \in {"gameover", "sectorclear"}
  /\ 0 < score /\ score < highscore

=============================================================================
